---------------------------- MODULE WalletProofs ------------------------------
(***************************************************************************)
(* Proofs about WalletTx, for any pools, wallets, amounts and number of    *)
(* calls.                                                                  *)
(***************************************************************************)
EXTENDS WalletTx, SequenceTheorems, FiniteSetTheorems, WellFoundedInduction, TLAPS

-----------------------------------------------------------------------------
(* Accounts and states                                                     *)

\* Token accounts, token vaults and fee accounts are different ones.
LEMMA Addresses ==
    /\ \A m, w, n, v : Ata(m, w) = Ata(n, v) <=> m = n /\ w = v
    /\ \A m, w, x : Ata(m, w) # TokenVault(x) /\ Ata(m, w) # FeeAccount(x)
    /\ \A x, y : FeeAccount(x) # TokenVault(y) /\ (FeeAccount(x) = FeeAccount(y) <=> x = y)
    /\ \A m, w : MintOf(Ata(m, w)) = m
<1>1. ASSUME NEW m, NEW w, NEW n, NEW v PROVE Ata(m, w) = Ata(n, v) <=> m = n /\ w = v
  BY DEF Ata
<1>2. ASSUME NEW m, NEW w, NEW x PROVE Ata(m, w) # TokenVault(x) /\ Ata(m, w) # FeeAccount(x)
  <2>1. Ata(m, w)[1] = "ata" /\ TokenVault(x)[1] = "token_vault" /\ FeeAccount(x)[1] = "fee"
    BY DEF Ata, TokenVault, FeeAccount, DeriveProtocolTokenFee
  <2>. QED
    BY <2>1
<1>3. ASSUME NEW x, NEW y
      PROVE  FeeAccount(x) # TokenVault(y) /\ (FeeAccount(x) = FeeAccount(y) <=> x = y)
  <2>1. FeeAccount(x)[1] = "fee" /\ TokenVault(y)[1] = "token_vault"
    BY DEF TokenVault, FeeAccount, DeriveProtocolTokenFee
  <2>2. FeeAccount(x)[2] = x /\ FeeAccount(y)[2] = y
    BY DEF FeeAccount, DeriveProtocolTokenFee
  <2>. QED
    BY <2>1, <2>2
<1>4. ASSUME NEW m, NEW w PROVE MintOf(Ata(m, w)) = m
  BY DEF Ata, MintOf
<1>. QED
  BY <1>1, <1>2, <1>3, <1>4

\* The fields of a state during a transaction.
Fields(s) == {"bal", "made", "sol", "res", "draw"} \subseteq DOMAIN s

\* Balances and lamports are integers.
Amounts(s) == /\ \A a \in DOMAIN s.bal : s.bal[a] \in Int
              /\ DOMAIN s.sol = Wallets /\ \A w \in Wallets : s.sol[w] \in Int

\* Why a transaction fails
Reasons == {"missing", "funds", "exists", "notEmpty", "slippage", "constraint", "readonly"}

\* From s to t a transaction goes on, and fails if it has failed.
Leads(s, t) ==
    /\ Fields(t) /\ t.draw = s.draw
    /\ t.res = "ok" => s.res = "ok"
    /\ t.res \in {s.res} \cup Reasons

LEMMA LeadsTrans ==
    ASSUME NEW s, NEW t, NEW u, Leads(s, t), Leads(t, u)
    PROVE  Leads(s, u)
BY DEF Leads

LEMMA FailLeads ==
    ASSUME NEW s, Fields(s), NEW why \in Reasons
    PROVE  Leads(s, Fail(s, why)) /\ Fail(s, why).res # "ok"
BY DEF Leads, Fields, Fail, Reasons

LEMMA CheckLeads ==
    ASSUME NEW s, Fields(s), NEW holds, NEW why \in Reasons
    PROVE  LET t == Check(s, holds, why)
           IN  Leads(s, t) /\ (t.res = "ok" => holds /\ t = s)
<1>1. CASE holds
  BY <1>1 DEF Check, Leads
<1>2. CASE ~holds
  BY <1>2, FailLeads DEF Check
<1>. QED
  BY <1>1, <1>2

\* What an account has after x left account f and arrived at account g.
Shift(b, a, f, g, x) == (b - (IF a = f THEN x ELSE 0)) + (IF a = g THEN x ELSE 0)

LEMMA MoveLeads ==
    ASSUME NEW s, Fields(s), NEW f, NEW g, NEW x
    PROVE  LET t == Move(s, f, g, x)
           IN  /\ Leads(s, t)
               /\ t.res = "ok" => {f, g} \subseteq DOMAIN s.bal /\ DOMAIN t.bal = DOMAIN s.bal
               /\ t.res = "ok" /\ Amounts(s) /\ x \in Int =>
                    /\ Amounts(t) /\ t.sol = s.sol
                    /\ \A a : Balance(t, a) = Shift(Balance(s, a), a, f, g, x)
<1> DEFINE taken == [s.bal EXCEPT ![f] = @ - x]
           bal == [taken EXCEPT ![g] = @ + x]
           t == Move(s, f, g, x)
<1>1. CASE t \in {Fail(s, "missing"), Fail(s, "funds")}
  <2>1. Leads(s, t) /\ t.res # "ok"
    BY <1>1, FailLeads DEF Reasons
  <2>. QED
    BY <2>1
<1>2. CASE t = [s EXCEPT !.bal = bal] /\ {f, g} \subseteq DOMAIN s.bal
  <2>1. Fields(t) /\ t.draw = s.draw /\ t.res = s.res /\ t.sol = s.sol /\ t.bal = bal
    <3> HIDE DEF bal
    <3>. QED
      BY <1>2 DEF Fields
  <2>2. DOMAIN bal = DOMAIN s.bal /\ DOMAIN taken = DOMAIN s.bal
    OBVIOUS
  <2>3. ASSUME Amounts(s), x \in Int, NEW a \in DOMAIN s.bal
        PROVE  bal[a] \in Int /\ bal[a] = Shift(s.bal[a], a, f, g, x)
    <3>1. s.bal[a] \in Int /\ s.bal[f] \in Int /\ s.bal[g] \in Int
      BY <1>2, <2>3 DEF Amounts
    <3>2. \A b \in DOMAIN s.bal : taken[b] = s.bal[b] - (IF b = f THEN x ELSE 0)
      BY <2>3 DEF Amounts
    <3>3. bal[a] = taken[a] + (IF a = g THEN x ELSE 0)
      BY <2>2, <2>3, <3>1, <3>2
    <3>. QED
      BY <2>3, <3>1, <3>2, <3>3 DEF Shift
  <2> HIDE DEF t, taken, bal
  <2>4. ASSUME Amounts(s), x \in Int, NEW a
        PROVE  Balance(t, a) = Shift(Balance(s, a), a, f, g, x)
    <3>1. CASE a \in DOMAIN s.bal
      BY <2>1, <2>2, <2>3, <2>4, <3>1 DEF Balance
    <3>2. CASE a \notin DOMAIN s.bal
      BY <1>2, <2>1, <2>2, <3>2 DEF Balance, Shift
    <3>. QED
      BY <3>1, <3>2
  <2>. QED
    BY <1>2, <2>1, <2>2, <2>3, <2>4 DEF Leads, Amounts, t
<1>3. \/ t \in {Fail(s, "missing"), Fail(s, "funds")}
      \/ t = [s EXCEPT !.bal = bal] /\ {f, g} \subseteq DOMAIN s.bal
  BY DEF Move
<1>. QED
  BY <1>1, <1>2, <1>3

\* An account whose balance changes to v, of one that exists.
LEMMA SetBalance ==
    ASSUME NEW s, Fields(s), Amounts(s), NEW g \in DOMAIN s.bal, NEW v \in Int,
           NEW t, t = [s EXCEPT !.bal[g] = v]
    PROVE  /\ Amounts(t) /\ t.sol = s.sol
           /\ \A a : Balance(t, a) = IF a = g THEN v ELSE Balance(s, a)
<1>1. t.bal = [s.bal EXCEPT ![g] = v] /\ t.sol = s.sol
  BY DEF Fields
<1>. QED
  BY <1>1 DEF Amounts, Balance

LEMMA MintLeads ==
    ASSUME NEW s, Fields(s), NEW g, NEW x
    PROVE  LET t == Mint(s, g, x)
           IN  /\ Leads(s, t)
               /\ t.res = "ok" /\ Amounts(s) /\ x \in Int =>
                    /\ Amounts(t) /\ t.sol = s.sol /\ g \in DOMAIN s.bal
                    /\ \A a : Balance(t, a) = Balance(s, a) + (IF a = g THEN x ELSE 0)
<1> DEFINE t == Mint(s, g, x)
<1>1. CASE g \notin DOMAIN s.bal
  <2>1. Leads(s, t) /\ t.res # "ok"
    BY <1>1, FailLeads DEF Mint, Reasons
  <2>. QED
    BY <2>1
<1>2. CASE g \in DOMAIN s.bal
  <2>1. t = [s EXCEPT !.bal[g] = s.bal[g] + x]
    BY <1>2 DEF Mint, Fields
  <2>2. Leads(s, t)
    BY <2>1 DEF Leads, Fields
  <2>3. ASSUME Amounts(s), x \in Int
        PROVE  /\ Amounts(t) /\ t.sol = s.sol
               /\ \A a : Balance(t, a) = Balance(s, a) + (IF a = g THEN x ELSE 0)
    <3>1. s.bal[g] + x \in Int
      BY <1>2, <2>3 DEF Amounts
    <3> HIDE DEF t
    <3>2. Amounts(t) /\ t.sol = s.sol /\ \A a : Balance(t, a) = IF a = g THEN s.bal[g] + x ELSE Balance(s, a)
      BY <1>2, <2>1, <2>3, <3>1, SetBalance
    <3>3. \A a : Balance(s, a) \in Int
      BY <2>3 DEF Balance, Amounts
    <3>4. Balance(s, g) = s.bal[g]
      BY <1>2 DEF Balance
    <3>. QED
      BY <3>2, <3>3, <3>4
  <2>. QED
    BY <1>2, <2>2, <2>3
<1>. QED
  BY <1>1, <1>2

LEMMA BurnLeads ==
    ASSUME NEW s, Fields(s), NEW g, NEW x
    PROVE  LET t == Burn(s, g, x)
           IN  /\ Leads(s, t)
               /\ t.res = "ok" /\ Amounts(s) /\ x \in Int =>
                    /\ Amounts(t) /\ t.sol = s.sol
                    /\ \A a : Balance(t, a) = Balance(s, a) - (IF a = g THEN x ELSE 0)
<1> DEFINE t == Burn(s, g, x)
<1>1. CASE t \in {Fail(s, "missing"), Fail(s, "funds")}
  <2>1. Leads(s, t) /\ t.res # "ok"
    BY <1>1, FailLeads DEF Reasons
  <2>. QED
    BY <2>1
<1>2. CASE g \in DOMAIN s.bal /\ t = [s EXCEPT !.bal[g] = s.bal[g] - x]
  <2>1. Leads(s, t)
    BY <1>2 DEF Leads, Fields
  <2>2. ASSUME Amounts(s), x \in Int
        PROVE  /\ Amounts(t) /\ t.sol = s.sol
               /\ \A a : Balance(t, a) = Balance(s, a) - (IF a = g THEN x ELSE 0)
    <3>1. s.bal[g] - x \in Int
      BY <1>2, <2>2 DEF Amounts
    <3> HIDE DEF t
    <3>2. Amounts(t) /\ t.sol = s.sol /\ \A a : Balance(t, a) = IF a = g THEN s.bal[g] - x ELSE Balance(s, a)
      BY <1>2, <2>2, <3>1, SetBalance
    <3>3. \A a : Balance(s, a) \in Int
      BY <2>2 DEF Balance, Amounts
    <3>4. Balance(s, g) = s.bal[g]
      BY <1>2 DEF Balance
    <3>. QED
      BY <3>2, <3>3, <3>4
  <2>. QED
    BY <2>1, <2>2
<1>3. \/ t \in {Fail(s, "missing"), Fail(s, "funds")}
      \/ g \in DOMAIN s.bal /\ t = [s EXCEPT !.bal[g] = s.bal[g] - x]
  BY DEF Burn, Fields
<1>. QED
  BY <1>1, <1>2, <1>3

LEMMA OpenLeads ==
    ASSUME NEW s, Fields(s), NEW g
    PROVE  LET t == Open(s, g)
           IN  /\ Leads(s, t)
               /\ t.res = "ok" /\ Amounts(s) =>
                    Amounts(t) /\ t.sol = s.sol /\ \A a : Balance(t, a) = Balance(s, a)
<1> DEFINE t == Open(s, g)
           bal == [a \in {g} |-> 0] ++ s.bal
<1>1. CASE g \in DOMAIN s.bal
  <2>1. Leads(s, t) /\ t.res # "ok"
    BY <1>1, FailLeads DEF Open, Reasons
  <2>. QED
    BY <2>1
<1>2. CASE g \notin DOMAIN s.bal
  <2>1. t = [s EXCEPT !.bal = bal]
    BY <1>2 DEF Open, Fields
  <2>2. DOMAIN bal = DOMAIN s.bal \cup {g} /\ bal[g] = 0 /\ \A a \in DOMAIN s.bal : bal[a] = s.bal[a]
    BY <1>2 DEF ++
  <2> HIDE DEF bal
  <2>3. Leads(s, t) /\ t.bal = bal /\ t.sol = s.sol
    BY <2>1 DEF Leads, Fields
  <2> HIDE DEF t
  <2>. QED
    BY <1>2, <2>2, <2>3 DEF Amounts, Balance, t
<1>. QED
  BY <1>1, <1>2

LEMMA WrapLeads ==
    ASSUME NEW s, Fields(s), NEW w, NEW g, NEW x
    PROVE  LET t == Wrap(s, w, g, x)
           IN  /\ Leads(s, t)
               /\ t.res = "ok" /\ Amounts(s) /\ x \in Int /\ w \in Wallets =>
                    /\ Amounts(t) /\ \A v \in Wallets : t.sol[v] = s.sol[v] - (IF v = w THEN x ELSE 0)
                    /\ \A a : Balance(t, a) = Balance(s, a) + (IF a = g THEN x ELSE 0)
<1> DEFINE t == Wrap(s, w, g, x)
           m == Mint(s, g, x)
           sol == [m.sol EXCEPT ![w] = @ - x]
<1>1. /\ Leads(s, m)
      /\ m.res = "ok" /\ Amounts(s) /\ x \in Int =>
           /\ Amounts(m) /\ m.sol = s.sol
           /\ \A a : Balance(m, a) = Balance(s, a) + (IF a = g THEN x ELSE 0)
  BY MintLeads
<1> HIDE DEF m
<1>2. CASE t = Fail(s, "funds")
  <2>1. Leads(s, t) /\ t.res # "ok"
    BY <1>2, FailLeads DEF Reasons
  <2>. QED
    BY <2>1
<1>3. CASE t = [m EXCEPT !.sol = sol]
  <2>1. Fields(m)
    BY <1>1 DEF Leads
  <2>2. Fields(t) /\ t.res = m.res /\ t.draw = m.draw /\ t.bal = m.bal /\ t.sol = sol
    <3> HIDE DEF sol
    <3>. QED
      BY <1>3, <2>1 DEF Fields
  <2>3. Leads(s, t)
    BY <1>1, <2>2 DEF Leads
  <2> HIDE DEF t
  <2>4. \A a : Balance(t, a) = Balance(m, a)
    BY <2>2 DEF Balance
  <2>5. Amounts(m) /\ w \in Wallets /\ x \in Int =>
          Amounts(t) /\ \A v \in Wallets : t.sol[v] = m.sol[v] - (IF v = w THEN x ELSE 0)
    BY <2>2 DEF Amounts
  <2>6. t.res = "ok" => m.res = "ok"
    BY <2>2
  <2>. QED
    BY <1>1, <2>3, <2>4, <2>5, <2>6 DEF t
<1>4. t = Fail(s, "funds") \/ t = [m EXCEPT !.sol = sol]
  <2>1. Fields(m)
    BY <1>1 DEF Leads
  <2>. QED
    BY <2>1 DEF Wrap, m, Fields
<1>. QED
  BY <1>2, <1>3, <1>4

LEMMA CloseLeads ==
    ASSUME NEW s, Fields(s), NEW g, NEW w
    PROVE  LET t == Close(s, g, w)
           IN  /\ Leads(s, t)
               /\ t.res = "ok" /\ Amounts(s) /\ w \in Wallets =>
                    /\ Amounts(t) /\ \A v \in Wallets : t.sol[v] = s.sol[v] + (IF v = w THEN Balance(s, g) ELSE 0)
                    /\ \A a : Balance(t, a) = IF a = g THEN 0 ELSE Balance(s, a)
<1> DEFINE t == Close(s, g, w)
           bal == Restrict(s.bal, DOMAIN s.bal \ {g})
           sol == [s.sol EXCEPT ![w] = @ + s.bal[g]]
<1>1. CASE t \in {Fail(s, "missing"), Fail(s, "notEmpty")}
  <2>1. Leads(s, t) /\ t.res # "ok"
    BY <1>1, FailLeads DEF Reasons
  <2>. QED
    BY <2>1
<1>2. CASE g \in DOMAIN s.bal /\ t = [s EXCEPT !.bal = bal, !.sol = sol]
  <2>1. DOMAIN bal = DOMAIN s.bal \ {g} /\ \A a \in DOMAIN s.bal \ {g} : bal[a] = s.bal[a]
    BY DEF Restrict
  <2>2. Fields(t) /\ t.res = s.res /\ t.draw = s.draw /\ t.bal = bal /\ t.sol = sol
    <3> HIDE DEF bal, sol
    <3>. QED
      BY <1>2 DEF Fields
  <2> HIDE DEF t, bal
  <2>3. Leads(s, t)
    BY <2>2 DEF Leads
  <2>4. Balance(s, g) = s.bal[g]
    BY <1>2 DEF Balance
  <2>5. \A a : Balance(t, a) = IF a = g THEN 0 ELSE Balance(s, a)
    BY <2>1, <2>2 DEF Balance
  <2>6. Amounts(s) /\ w \in Wallets =>
          Amounts(t) /\ \A v \in Wallets : t.sol[v] = s.sol[v] + (IF v = w THEN Balance(s, g) ELSE 0)
    BY <1>2, <2>1, <2>2, <2>4 DEF Amounts
  <2>. QED
    BY <2>3, <2>5, <2>6 DEF t
<1>3. \/ t \in {Fail(s, "missing"), Fail(s, "notEmpty")}
      \/ g \in DOMAIN s.bal /\ t = [s EXCEPT !.bal = bal, !.sol = sol]
  BY DEF Close, Fields
<1>. QED
  BY <1>1, <1>2, <1>3

-----------------------------------------------------------------------------
(* Instructions that move no value                                         *)

\* Accounts are created, and users wrap or unwrap their own SOL.
Neutral(ix) ==
    \/ ix.name = "createAta"
    \/ ix.name = "wrap" /\ ix.from \in Users /\ ix.to = Ata(Native, ix.from) /\ ix.amount \in Int
    \/ ix.name = "close" /\ ix.receiver \in Users /\ ix.account = Ata(Native, ix.receiver)

\* The holdings of wallets, and the other balances of interest, stay.
Same(s, t) ==
    /\ Amounts(t)
    /\ \A w \in Wallets, m \in Mints : Holding(t, w, m) = Holding(s, w, m)
    /\ Balance(t, Ata(Native, Temp)) = Balance(s, Ata(Native, Temp))
    /\ \A x : Balance(t, FeeAccount(x)) = Balance(s, FeeAccount(x))

LEMMA BalanceInt ==
    ASSUME NEW s, Amounts(s)
    PROVE  /\ \A a : Balance(s, a) \in Int
           /\ \A w \in Wallets : \A m : Holding(s, w, m) \in Int
<1>1. \A a : Balance(s, a) \in Int
  BY DEF Amounts, Balance
<1>. QED
  BY <1>1 DEF Holding, Amounts

LEMMA NeutralLeads ==
    ASSUME NEW s, Fields(s), NEW ix, Neutral(ix)
    PROVE  LET t == Execute(s, ix)
           IN  Leads(s, t) /\ (t.res = "ok" /\ Amounts(s) => Same(s, t))
<1> DEFINE t == Execute(s, ix)
<1>1. ~OfProgram(ix)
  BY DEF Neutral, OfProgram, Idl
<1>2. CASE s.res # "ok"
  BY <1>2 DEF Execute, Leads
<1>3. CASE s.res = "ok" /\ ix.name = "createAta"
  <2> DEFINE ok == Check(s, MintOf(ix.account) \in s.made, "missing")
  <2>1. t = Open(ok, ix.account)
    BY <1>1, <1>3 DEF Execute
  <2>2. Leads(s, ok) /\ (ok.res = "ok" => ok = s) /\ Fields(ok)
    BY CheckLeads DEF Leads, Reasons
  <2> HIDE DEF ok, t
  <2>3. /\ Leads(ok, t)
        /\ t.res = "ok" /\ Amounts(ok) =>
             Amounts(t) /\ t.sol = ok.sol /\ \A a : Balance(t, a) = Balance(ok, a)
    BY <2>1, <2>2, OpenLeads
  <2>4. Leads(s, t)
    BY <2>2, <2>3, LeadsTrans
  <2>5. ASSUME t.res = "ok", Amounts(s) PROVE Same(s, t)
    <3>1. ok = s
      BY <2>2, <2>3, <2>5 DEF Leads
    <3>. QED
      BY <2>3, <2>5, <3>1 DEF Same, Holding
  <2>. QED
    BY <2>4, <2>5 DEF t
<1>4. CASE s.res = "ok" /\ ix.name = "wrap"
  <2> DEFINE w == ix.from
             x == ix.amount
             g == Ata(Native, w)
  <2>1. t = Wrap(s, w, g, x) /\ w \in Users /\ x \in Int
    BY <1>1, <1>4 DEF Execute, Neutral
  <2>2. w \in Wallets /\ w # Temp
    BY <2>1, WalletConstants DEF Wallets
  <2> HIDE DEF t, w, x
  <2>3. /\ Leads(s, t)
        /\ t.res = "ok" /\ Amounts(s) =>
             /\ Amounts(t) /\ \A v \in Wallets : t.sol[v] = s.sol[v] - (IF v = w THEN x ELSE 0)
             /\ \A a : Balance(t, a) = Balance(s, a) + (IF a = g THEN x ELSE 0)
    <3> HIDE DEF g
    <3>. QED
      BY <2>1, <2>2, WrapLeads
  <2>4. ASSUME t.res = "ok", Amounts(s) PROVE Same(s, t)
    <3>1. \A a : Balance(s, a) \in Int
      BY <2>4, BalanceInt
    <3>2. \A a : a # g => Balance(t, a) = Balance(s, a)
      BY <2>3, <2>4, <3>1
    <3>3. ASSUME NEW v \in Wallets, NEW m \in Mints PROVE Holding(t, v, m) = Holding(s, v, m)
      <4>1. CASE v = w /\ m = Native
        <5>1. Balance(t, Ata(m, v)) = Balance(s, Ata(m, v)) + x /\ t.sol[v] = s.sol[v] - x
          BY <2>2, <2>3, <2>4, <4>1 DEF Amounts
        <5>2. Balance(s, Ata(m, v)) \in Int /\ s.sol[v] \in Int
          BY <2>4, <3>1 DEF Amounts
        <5>. QED
          BY <2>1, <4>1, <5>1, <5>2 DEF Holding
      <4>2. CASE v # w \/ m # Native
        <5>1. Ata(m, v) # g
          BY <4>2, Addresses
        <5>2. m = Native => t.sol[v] = s.sol[v]
          BY <2>3, <2>4, <4>2 DEF Amounts
        <5>. QED
          BY <3>2, <5>1, <5>2 DEF Holding
      <4>. QED
        BY <4>1, <4>2
    <3>4. Ata(Native, Temp) # g /\ \A y : FeeAccount(y) # g
      BY <2>2, Addresses
    <3>. QED
      BY <2>3, <2>4, <3>2, <3>3, <3>4 DEF Same
  <2>. QED
    BY <2>3, <2>4 DEF t
<1>5. CASE s.res = "ok" /\ ix.name = "close"
  <2> DEFINE w == ix.receiver
             g == Ata(Native, w)
  <2>1. t = Close(s, g, w) /\ w \in Users
    BY <1>1, <1>5 DEF Execute, Neutral
  <2>2. w \in Wallets /\ w # Temp
    BY <2>1, WalletConstants DEF Wallets
  <2> HIDE DEF t, w
  <2>3. /\ Leads(s, t)
        /\ t.res = "ok" /\ Amounts(s) =>
             /\ Amounts(t) /\ \A v \in Wallets : t.sol[v] = s.sol[v] + (IF v = w THEN Balance(s, g) ELSE 0)
             /\ \A a : Balance(t, a) = IF a = g THEN 0 ELSE Balance(s, a)
    <3> HIDE DEF g
    <3>. QED
      BY <2>1, <2>2, CloseLeads
  <2>4. ASSUME t.res = "ok", Amounts(s) PROVE Same(s, t)
    <3>1. \A a : Balance(s, a) \in Int
      BY <2>4, BalanceInt
    <3>2. \A a : a # g => Balance(t, a) = Balance(s, a)
      BY <2>3, <2>4, <3>1
    <3>3. ASSUME NEW v \in Wallets, NEW m \in Mints PROVE Holding(t, v, m) = Holding(s, v, m)
      <4>1. CASE v = w /\ m = Native
        <5>1. Balance(t, Ata(m, v)) = 0 /\ t.sol[v] = s.sol[v] + Balance(s, Ata(m, v))
          BY <2>2, <2>3, <2>4, <4>1 DEF Amounts
        <5>2. Balance(s, Ata(m, v)) \in Int /\ s.sol[v] \in Int
          BY <2>4, <3>1 DEF Amounts
        <5>. QED
          BY <4>1, <5>1, <5>2 DEF Holding
      <4>2. CASE v # w \/ m # Native
        <5>1. Ata(m, v) # g
          BY <4>2, Addresses
        <5>2. m = Native => t.sol[v] = s.sol[v]
          BY <2>3, <2>4, <4>2 DEF Amounts
        <5>. QED
          BY <3>2, <5>1, <5>2 DEF Holding
      <4>. QED
        BY <4>1, <4>2
    <3>4. Ata(Native, Temp) # g /\ \A y : FeeAccount(y) # g
      BY <2>2, Addresses
    <3>. QED
      BY <2>3, <2>4, <3>2, <3>3, <3>4 DEF Same
  <2>. QED
    BY <2>3, <2>4 DEF t
<1>. QED
  BY <1>2, <1>3, <1>4, <1>5 DEF Neutral

-----------------------------------------------------------------------------
(* Transactions                                                            *)

\* Induction on the natural numbers, as a statement about sets.
LEMMA SetInduction ==
    ASSUME NEW S, 0 \in S, \A n \in Nat : n \in S => n + 1 \in S
    PROVE  Nat \subseteq S
<1> DEFINE R == {ss \in Nat \X Nat : ss[1] < ss[2]}
           T == Nat \ S
<1> SUFFICES ASSUME T # {} PROVE FALSE
  OBVIOUS
<1>1. IsWellFoundedOn(R, Nat)
  BY NatLessThanWellFounded DEF OpToRel
<1>2. PICK m \in T : \A k \in T : ~(<<k, m>> \in R)
  BY <1>1, WFMin
<1>3. \A k \in T : ~(k < m)
  <2> SUFFICES ASSUME NEW k \in T, k < m PROVE FALSE
    OBVIOUS
  <2>1. k \in Nat /\ m \in Nat
    OBVIOUS
  <2>2. <<k, m>> \in R
    BY <2>1
  <2>. QED
    BY <1>2, <2>2
<1>4. m \in Nat /\ m # 0 /\ m - 1 \in Nat
  OBVIOUS
<1>5. m - 1 \in T
  <2>1. (m - 1) + 1 = m
    BY <1>4
  <2>. QED
    BY <1>4, <2>1
<1>. QED
  BY <1>3, <1>4, <1>5

\* The states that the instructions of a transaction pass through exist.
LEMMA RunDefined ==
    ASSUME NEW s, NEW ixs
    PROVE  \A n \in Nat :
             \E g : g = [i \in 0..n |-> IF i = 0 THEN s ELSE Execute(g[i - 1], ixs[i])]
<1> DEFINE P(n) == \E g : g = [i \in 0..n |-> IF i = 0 THEN s ELSE Execute(g[i - 1], ixs[i])]
           S == {n \in Nat : P(n)}
<1>1. 0 \in S
  <2> DEFINE g == [i \in 0..0 |-> s]
  <2>1. g = [i \in 0..0 |-> IF i = 0 THEN s ELSE Execute(g[i - 1], ixs[i])]
    OBVIOUS
  <2>. QED
    BY <2>1
<1>2. ASSUME NEW n \in Nat, n \in S PROVE n + 1 \in S
  <2>1. PICK g : g = [i \in 0..n |-> IF i = 0 THEN s ELSE Execute(g[i - 1], ixs[i])]
    BY <1>2
  <2> DEFINE h == [i \in 0..(n + 1) |-> IF i = n + 1 THEN Execute(g[n], ixs[n + 1]) ELSE g[i]]
  <2>2. ASSUME NEW i \in 0..(n + 1)
        PROVE  h[i] = IF i = 0 THEN s ELSE Execute(h[i - 1], ixs[i])
    <3>1. CASE i = 0
      BY <2>1, <3>1
    <3>2. CASE i = n + 1
      <4>1. h[i] = Execute(g[n], ixs[n + 1]) /\ i - 1 = n /\ i # 0 /\ n \in 0..(n + 1) /\ n # n + 1
        BY <3>2
      <4>2. h[n] = g[n]
        BY <4>1
      <4>. QED
        BY <3>2, <4>1, <4>2
    <3>3. CASE i # 0 /\ i # n + 1
      <4>1. i \in 0..n /\ i - 1 \in 0..n /\ i - 1 \in 0..(n + 1) /\ i - 1 # n + 1
        BY <3>3
      <4>2. h[i] = g[i] /\ h[i - 1] = g[i - 1]
        BY <3>3, <4>1
      <4>3. g[i] = Execute(g[i - 1], ixs[i])
        BY <2>1, <3>3, <4>1
      <4>. QED
        BY <3>3, <4>2, <4>3
    <3>. QED
      BY <3>1, <3>2, <3>3
  <2> HIDE DEF h
  <2>3. h = [i \in 0..(n + 1) |-> h[i]]
    BY DEF h
  <2>4. h = [i \in 0..(n + 1) |-> IF i = 0 THEN s ELSE Execute(h[i - 1], ixs[i])]
    BY <2>2, <2>3
  <2>. QED
    BY <2>4
<1> HIDE DEF S
<1>3. Nat \subseteq S
  BY <1>1, <1>2, SetInduction
<1>. QED
  BY <1>3 DEF S


\* The state in which a transaction starts
Begin(s, draw) == [res |-> "ok", draw |-> draw] ++ s

\* The states g that a transaction passes through
Trace(g, s, ixs, draw) ==
    /\ g[0] = Begin(s, draw) /\ Run(s, ixs, draw) = g[Len(ixs)]
    /\ \A n \in Nat : n + 1 <= Len(ixs) => g[n + 1] = Execute(g[n], ixs[n + 1])

LEMMA RunSteps ==
    ASSUME NEW s, NEW ixs, Len(ixs) \in Nat, NEW draw
    PROVE  \E g : Trace(g, s, ixs, draw)
<1> DEFINE b == Begin(s, draw)
           L == Len(ixs)
           g == CHOOSE g : g = [i \in 0..L |-> IF i = 0 THEN b ELSE Execute(g[i - 1], ixs[i])]
<1>1. Run(s, ixs, draw) = g[L]
  BY DEF Run, Begin
<1> HIDE DEF b
<1>2. g = [i \in 0..L |-> IF i = 0 THEN b ELSE Execute(g[i - 1], ixs[i])]
  BY RunDefined
<1> HIDE DEF g, L
<1>3. L \in Nat
  BY DEF L
<1>4. g[0] = b
  BY <1>2, <1>3
<1>5. ASSUME NEW n \in Nat, n + 1 <= L PROVE g[n + 1] = Execute(g[n], ixs[n + 1])
  <2>1. n + 1 \in 0..L /\ n + 1 # 0 /\ (n + 1) - 1 = n
    BY <1>3, <1>5
  <2>. QED
    BY <1>2, <2>1
<1>. QED
  BY <1>1, <1>4, <1>5 DEF b, L, Trace

\* One more instruction is executed on what the others have led to.
LEMMA RunAppend ==
    ASSUME NEW s, NEW draw, NEW I, NEW ixs \in Seq(I), NEW x
    PROVE  Run(s, ixs \o <<x>>, draw) = Execute(Run(s, ixs, draw), x)
<1> DEFINE L == Len(ixs)
           both == ixs \o <<x>>
<1>1. L \in Nat /\ Len(both) = L + 1 /\ both[L + 1] = x /\ \A i \in 1..L : both[i] = ixs[i]
  OBVIOUS
<1>2. PICK g : Trace(g, s, ixs, draw)
  BY <1>1, RunSteps
<1> HIDE DEF L, both
<1>0. Len(both) \in Nat
  BY <1>1
<1>3. PICK h : Trace(h, s, both, draw)
  BY <1>0, RunSteps
<1> DEFINE S == {n \in Nat : n <= L => h[n] = g[n]}
<1>4. 0 \in S
  BY <1>2, <1>3 DEF Trace
<1>5. ASSUME NEW n \in Nat, n \in S PROVE n + 1 \in S
  <2> SUFFICES ASSUME n + 1 <= L PROVE h[n + 1] = g[n + 1]
    OBVIOUS
  <2>1. n + 1 \in 1..L /\ n <= L /\ n + 1 <= Len(both)
    BY <1>1
  <2>2. h[n + 1] = Execute(h[n], both[n + 1]) /\ g[n + 1] = Execute(g[n], ixs[n + 1])
    BY <1>2, <1>3, <2>1 DEF Trace, L
  <2>. QED
    BY <1>1, <1>5, <2>1, <2>2
<1> HIDE DEF S
<1>6. L \in S
  BY <1>1, <1>4, <1>5, SetInduction
<1>7. h[L] = g[L]
  BY <1>1, <1>6 DEF S
<1>8. h[L + 1] = Execute(h[L], both[L + 1])
  BY <1>1, <1>3 DEF Trace
<1>9. Run(s, both, draw) = h[L + 1] /\ Run(s, ixs, draw) = g[L]
  BY <1>1, <1>2, <1>3 DEF Trace, L
<1>. QED
  BY <1>1, <1>7, <1>8, <1>9 DEF both

\* A list of instructions that move no value
AllNeutral(ixs) == ixs \in Seq(ToSet(ixs)) /\ \A ix \in ToSet(ixs) : Neutral(ix)

\* Such a list has no effect on what anybody owns.
LEMMA RunNeutral ==
    ASSUME NEW s, {"bal", "made", "sol"} \subseteq DOMAIN s, NEW draw, NEW ixs, AllNeutral(ixs)
    PROVE  LET t == Run(s, ixs, draw)
           IN  /\ Fields(t) /\ t.draw = draw /\ t.res \in {"ok"} \cup Reasons
               /\ t.res = "ok" /\ Amounts(s) => Same(s, t)
<1> DEFINE L == Len(ixs)
           b == Begin(s, draw)
<1>1. L \in Nat /\ DOMAIN ixs = 1..L
  BY DEF AllNeutral
<1>2. Fields(b) /\ b.draw = draw /\ b.res = "ok" /\ b.bal = s.bal /\ b.sol = s.sol
  BY DEF Begin, ++, Fields
<1>3. \A i \in 1..L : Neutral(ixs[i])
  BY <1>1 DEF AllNeutral, ToSet
<1>9. PICK g : Trace(g, s, ixs, draw)
  BY <1>1, RunSteps
<1>4. /\ g[0] = b /\ Run(s, ixs, draw) = g[L]
      /\ \A n \in Nat : n + 1 <= L => g[n + 1] = Execute(g[n], ixs[n + 1])
  BY <1>9 DEF Trace
<1> HIDE DEF L, b
<1> DEFINE Claim(n) == /\ Fields(g[n]) /\ g[n].draw = draw /\ g[n].res \in {"ok"} \cup Reasons
                       /\ g[n].res = "ok" /\ Amounts(s) => Same(s, g[n])
           S == {n \in Nat : n <= L => Claim(n)}
<1>5. 0 \in S
  <2>1. g[0] = b
    BY <1>4
  <2>2. Amounts(s) => Same(s, b)
    BY <1>2 DEF Same, Amounts, Holding, Balance
  <2>. QED
    BY <1>2, <2>1, <2>2
<1>6. ASSUME NEW n \in Nat, n \in S PROVE n + 1 \in S
  <2> SUFFICES ASSUME n + 1 <= L PROVE Claim(n + 1)
    OBVIOUS
  <2>1. n + 1 \in 1..L /\ n <= L
    BY <1>1
  <2> DEFINE t == g[n]
             u == g[n + 1]
  <2>2. u = Execute(t, ixs[n + 1])
    BY <1>4, <2>1
  <2>3. Claim(n)
    BY <1>6, <2>1
  <2> HIDE DEF t, u
  <2>4. Leads(t, u) /\ (u.res = "ok" /\ Amounts(t) => Same(t, u))
    BY <1>3, <2>1, <2>2, <2>3, NeutralLeads DEF t
  <2>5. Fields(u) /\ u.draw = draw /\ u.res \in {"ok"} \cup Reasons
    BY <2>3, <2>4 DEF Leads, t
  <2>6. ASSUME u.res = "ok", Amounts(s) PROVE Same(s, u)
    <3>1. t.res = "ok" /\ Same(s, t)
      BY <2>3, <2>4, <2>6 DEF Leads, t
    <3>2. Same(t, u)
      BY <2>4, <2>6, <3>1 DEF Same
    <3>. QED
      BY <3>1, <3>2 DEF Same
  <2>. QED
    BY <2>5, <2>6 DEF u
<1> HIDE DEF S
<1>7. L \in S
  BY <1>1, <1>5, <1>6, SetInduction
<1>8. Claim(L)
  BY <1>1, <1>7 DEF S
<1>. QED
  BY <1>4, <1>8

-----------------------------------------------------------------------------
(* Instructions of the AMM program                                         *)

LEMMA ProgramLeads ==
    ASSUME NEW s, Fields(s), NEW ix, OfProgram(ix), Leads(s, Program(s, ix))
    PROVE  LET t == Execute(s, ix)
           IN  Leads(s, t) /\ (t.res = "ok" => t = Program(s, ix))
<1> DEFINE p == Program(s, ix)
           holds == Changed(s, p) \subseteq {ix.acc[r] : r \in Idl[ix.name].writable}
           t == Execute(s, ix)
<1>1. CASE s.res # "ok"
  BY <1>1 DEF Execute, Leads
<1>2. CASE s.res = "ok"
  <2>1. t = Check(p, holds, "readonly")
    <3>1. ix.name \notin {"createAta", "wrap", "close", "createVault", "createMint",
                          "createMetadata", "mintTo", "createFeeVault"}
      BY DEF OfProgram, Idl
    <3>. QED
      BY <1>2, <3>1 DEF Execute, RunProgram
  <2> HIDE DEF p, holds, t
  <2>2. Leads(p, t) /\ (t.res = "ok" => t = p)
    <3>1. Fields(p)
      BY DEF Leads, p
    <3>. QED
      BY <2>1, <3>1, CheckLeads DEF Reasons
  <2>3. Leads(s, t)
    BY <2>2, LeadsTrans DEF p
  <2>. QED
    BY <2>2, <2>3 DEF p, t
<1>. QED
  BY <1>1, <1>2

\* The tokens that the call k pays or takes according to the draw
Done(k, draw) == [pc |-> "landed", draw |-> draw] ++ k

\* An instruction moves d of each token to the wallet o and leaves the others alone.
Pays(s, t, o, k) ==
    /\ Amounts(t) /\ t.sol = s.sol
    /\ \A w \in Wallets, m \in Mints :
         Balance(t, Ata(m, w)) = Balance(s, Ata(m, w)) + (IF w = o THEN Due(k, m) ELSE 0)

FeesStay(s, t) == \A x : Balance(t, FeeAccount(x)) = Balance(s, FeeAccount(x))

LEMMA DoneFacts ==
    ASSUME NEW k, NEW draw
    PROVE  LET d == Done(k, draw)
           IN  /\ d.draw = draw /\ d.pc = "landed"
               /\ \A f \in DOMAIN k \ {"pc", "draw"} : d[f] = k[f]
BY DEF Done, ++

LEMMA PoolTokens ==
    ASSUME pool \in Pools
    PROVE  TokenA # TokenB /\ Lp # TokenA /\ Lp # TokenB /\ Lp # Native
BY WalletConstants, LpIsNoToken DEF TokenA, TokenB, Lp, Pool

LEMMA SwapPays ==
    ASSUME pool \in Pools, NEW s, Fields(s), NEW k, {"kind", "owner", "mint", "min"} \subseteq DOMAIN k,
           k.kind = "swap", k.mint \in {TokenA, TokenB}, NEW ix, SwapInstruction(k) = <<ix>>
    PROVE  LET t == Execute(s, ix)
           IN  /\ Leads(s, t)
               /\ t.res = "ok" => s.draw[1] >= k.min
               /\ t.res = "ok" /\ Amounts(s) /\ s.draw \in Draws =>
                    Pays(s, t, k.owner, Done(k, s.draw)) /\ FeesStay(s, t)
<1> DEFINE o == k.owner
           dst == IF k.mint = TokenA THEN TokenB ELSE TokenA
           acc == [userSourceToken |-> Ata(k.mint, o), userDestinationToken |-> Ata(dst, o),
                   user |-> o, protocolTokenFee |-> FeeAccount(k.mint)] ++ WithTokenVaults
           t == Execute(s, ix)
           c1 == Check(s, ix.acc.pool \in s.made, "missing")
           c2 == Check(c1, NamesVaults(ix.acc, {k.mint, dst})
                             /\ ix.acc.protocolTokenFee = DeriveProtocolTokenFee(ix.acc.pool, k.mint),
                       "constraint")
           enough == s.draw[1] >= k.min
           ok == Check(c2, enough, "slippage")
           m1 == Move(ok, Ata(k.mint, o), TokenVault(k.mint), Amount)
           m2 == Move(m1, TokenVault(dst), Ata(dst, o), s.draw[1])
<1>1. ix = [name |-> "swap", amount |-> Amount, min |-> k.min, acc |-> acc]
  BY DEF SwapInstruction
<1>2. ix.name = "swap" /\ ix.amount = Amount /\ ix.min = k.min /\ ix.acc = acc
  BY <1>1
<1>3. acc.userSourceToken = Ata(k.mint, o) /\ acc.userDestinationToken = Ata(dst, o)
  BY DEF ++
<1> HIDE DEF acc
<1>4. OfProgram(ix) /\ Program(s, ix) = Swap(s, ix)
  BY <1>2 DEF OfProgram, Idl, Program
<1>5. MintOf(Ata(k.mint, o)) = k.mint /\ MintOf(Ata(dst, o)) = dst
  BY Addresses
<1>6. Swap(s, ix) = m2
  BY <1>2, <1>3, <1>5 DEF Swap
<1> HIDE DEF dst
<1>7. Leads(s, c1) /\ Fields(c1) /\ (c1.res = "ok" => c1 = s)
  BY CheckLeads DEF Leads, Reasons
<1> HIDE DEF c1
<1>8. Leads(c1, c2) /\ Fields(c2) /\ (c2.res = "ok" => c2 = c1)
  BY <1>7, CheckLeads DEF Leads, Reasons
<1> HIDE DEF c2
<1> HIDE DEF enough
<1>9. Leads(c2, ok) /\ Fields(ok) /\ (ok.res = "ok" => enough /\ ok = c2)
  BY <1>8, CheckLeads DEF Leads, Reasons
<1> HIDE DEF ok
<1>10. /\ Leads(ok, m1) /\ Fields(m1)
       /\ m1.res = "ok" /\ Amounts(ok) /\ Amount \in Int =>
            /\ Amounts(m1) /\ m1.sol = ok.sol
            /\ \A a : Balance(m1, a) = Shift(Balance(ok, a), a, Ata(k.mint, o), TokenVault(k.mint), Amount)
  BY <1>9, MoveLeads DEF Leads
<1> HIDE DEF m1
<1>11. /\ Leads(m1, m2) /\ Fields(m2)
       /\ m2.res = "ok" /\ Amounts(m1) /\ s.draw[1] \in Int =>
            /\ Amounts(m2) /\ m2.sol = m1.sol
            /\ \A a : Balance(m2, a) = Shift(Balance(m1, a), a, TokenVault(dst), Ata(dst, o), s.draw[1])
  BY <1>10, MoveLeads DEF Leads
<1> HIDE DEF m2
<1>12. Leads(s, m2)
  BY <1>7, <1>8, <1>9, <1>10, <1>11, LeadsTrans
<1>13. Leads(s, t) /\ (t.res = "ok" => t = m2)
  BY <1>4, <1>6, <1>12, ProgramLeads
<1>14. ASSUME t.res = "ok"
       PROVE  ok = s /\ s.draw[1] >= k.min /\ m1.res = "ok" /\ m2.res = "ok" /\ t = m2
  BY <1>7, <1>8, <1>9, <1>10, <1>11, <1>13, <1>14 DEF Leads, enough
<1>15. ASSUME t.res = "ok", Amounts(s), s.draw \in Draws
       PROVE  Pays(s, t, o, Done(k, s.draw)) /\ FeesStay(s, t)
  <2> DEFINE d == Done(k, s.draw)
  <2>1. Amount \in Int /\ s.draw[1] \in Int
    BY <1>15, WalletConstants
  <2>2. Amounts(t) /\ t.sol = s.sol
    BY <1>10, <1>11, <1>14, <1>15, <2>1
  <2>3. \A a : Balance(t, a) = Shift(Shift(Balance(s, a), a, Ata(k.mint, o), TokenVault(k.mint), Amount),
                                     a, TokenVault(dst), Ata(dst, o), s.draw[1])
    BY <1>10, <1>11, <1>14, <1>15, <2>1
  <2>4. \A a : Balance(s, a) \in Int
    BY <1>15, BalanceInt
  <2>5. FeesStay(s, t)
    BY <2>1, <2>3, <2>4, Addresses DEF FeesStay, Shift
  <2>6. d.kind = "swap" /\ d.mint = k.mint /\ d.draw = s.draw
    BY DoneFacts
  <2>7. \A m \in Mints : Due(d, m) = IF m = k.mint THEN -Amount ELSE IF m = dst THEN s.draw[1] ELSE 0
    <3> HIDE DEF d
    <3>1. \A m : Due(d, m) = IF m = k.mint THEN -Amount ELSE IF m = Lp THEN 0 ELSE s.draw[1]
      BY <2>6 DEF Due
    <3>. QED
      BY <3>1, PoolTokens DEF Mints, dst
  <2>8. k.mint # dst
    BY PoolTokens DEF dst
  <2> HIDE DEF d
  <2>9. ASSUME NEW w \in Wallets, NEW m \in Mints
        PROVE  Balance(t, Ata(m, w)) = Balance(s, Ata(m, w)) + (IF w = o THEN Due(d, m) ELSE 0)
    <3>1. /\ Ata(m, w) = Ata(k.mint, o) <=> m = k.mint /\ w = o
          /\ Ata(m, w) = Ata(dst, o) <=> m = dst /\ w = o
          /\ Ata(m, w) # TokenVault(k.mint) /\ Ata(m, w) # TokenVault(dst)
      BY Addresses
    <3>. QED
      BY <2>1, <2>3, <2>4, <2>7, <2>8, <3>1 DEF Shift
  <2>. QED
    BY <2>2, <2>5, <2>9 DEF Pays, d
<1>. QED
  BY <1>13, <1>14, <1>15

LEMMA BothFacts ==
    ASSUME NEW o
    PROVE  LET a == BothAccounts(o)
           IN  /\ a.userAToken = Ata(TokenA, o) /\ a.userBToken = Ata(TokenB, o)
               /\ a.userPoolLp = Ata(Lp, o)
               /\ a.aTokenVault = TokenVault(TokenA) /\ a.bTokenVault = TokenVault(TokenB)
<1>1. /\ WithTokenVaults.aTokenVault = TokenVault(TokenA)
      /\ WithTokenVaults.bTokenVault = TokenVault(TokenB)
      /\ {"aTokenVault", "bTokenVault"} \subseteq DOMAIN WithTokenVaults
  BY DEF WithTokenVaults, ++
<1> DEFINE own == [userAToken |-> Ata(TokenA, o), userBToken |-> Ata(TokenB, o),
                   userPoolLp |-> Ata(Lp, o), lpMint |-> Lp, user |-> o]
<1>2. BothAccounts(o) = own ++ WithTokenVaults
  BY DEF BothAccounts
<1> HIDE DEF own
<1>3. DOMAIN own = {"userAToken", "userBToken", "userPoolLp", "lpMint", "user"}
  BY DEF own
<1>4. \A x \in DOMAIN own \cup DOMAIN WithTokenVaults :
        BothAccounts(o)[x] = IF x \in DOMAIN own THEN own[x] ELSE WithTokenVaults[x]
  BY <1>2 DEF ++
<1>5. own.userAToken = Ata(TokenA, o) /\ own.userBToken = Ata(TokenB, o) /\ own.userPoolLp = Ata(Lp, o)
  BY DEF own
<1>. QED
  BY <1>1, <1>3, <1>4, <1>5

LEMMA DepositPays ==
    ASSUME pool \in Pools, NEW s, Fields(s), NEW k, {"kind", "owner"} \subseteq DOMAIN k,
           k.kind = "deposit", NEW ix,
           ix = [name |-> DepositMethod, a |-> Amount, b |-> Amount, lp |-> Amount,
                 acc |-> BothAccounts(k.owner)]
    PROVE  LET t == Execute(s, ix)
           IN  /\ Leads(s, t)
               /\ t.res = "ok" /\ Amounts(s) /\ s.draw \in Draws =>
                    Pays(s, t, k.owner, Done(k, s.draw)) /\ FeesStay(s, t)
<1> DEFINE o == k.owner
           acc == BothAccounts(o)
           t == Execute(s, ix)
           taken == IF ix.name = "addBalanceLiquidity" THEN s.draw ELSE <<ix.a, ix.b>>
           enough == taken[1] <= ix.a /\ taken[2] <= ix.b
           c1 == Check(s, ix.acc.pool \in s.made, "missing")
           ok == Check(c1, enough, "slippage")
           m1 == Move(ok, Ata(TokenA, o), TokenVault(TokenA), taken[1])
           m2 == Move(m1, Ata(TokenB, o), TokenVault(TokenB), taken[2])
           m3 == Mint(m2, Ata(Lp, o), Amount)
<1>1. ix.name = DepositMethod /\ ix.a = Amount /\ ix.b = Amount /\ ix.lp = Amount /\ ix.acc = acc
  OBVIOUS
<1>2. ix.name \in {"addBalanceLiquidity", "addImbalanceLiquidity", "bootstrapLiquidity"}
  BY <1>1 DEF DepositMethod
<1>3. /\ acc.userAToken = Ata(TokenA, o) /\ acc.userBToken = Ata(TokenB, o)
      /\ acc.userPoolLp = Ata(Lp, o)
      /\ acc.aTokenVault = TokenVault(TokenA) /\ acc.bTokenVault = TokenVault(TokenB)
  BY BothFacts
<1>4. OfProgram(ix) /\ Program(s, ix) = AddLiquidity(s, ix)
  BY <1>2 DEF OfProgram, Idl, Program
<1> HIDE DEF acc
<1>5. AddLiquidity(s, ix) = m3
  BY <1>1, <1>3 DEF AddLiquidity
<1>6. s.draw \in Draws => taken[1] \in Int /\ taken[2] \in Int
  BY <1>1, WalletConstants
<1>7. /\ Empty \/ Stable => taken[1] = Amount /\ taken[2] = Amount
      /\ ~(Empty \/ Stable) => taken = s.draw
  BY <1>1 DEF DepositMethod
<1> HIDE DEF taken, enough
<1>8. Leads(s, c1) /\ Fields(c1) /\ (c1.res = "ok" => c1 = s)
  BY CheckLeads DEF Leads, Reasons
<1> HIDE DEF c1
<1>9. Leads(c1, ok) /\ Fields(ok) /\ (ok.res = "ok" => ok = c1)
  BY <1>8, CheckLeads DEF Leads, Reasons
<1> HIDE DEF ok
<1>10. /\ Leads(ok, m1) /\ Fields(m1)
       /\ m1.res = "ok" /\ Amounts(ok) /\ taken[1] \in Int =>
            /\ Amounts(m1) /\ m1.sol = ok.sol
            /\ \A a : Balance(m1, a) = Shift(Balance(ok, a), a, Ata(TokenA, o), TokenVault(TokenA), taken[1])
  BY <1>9, MoveLeads DEF Leads
<1> HIDE DEF m1
<1>11. /\ Leads(m1, m2) /\ Fields(m2)
       /\ m2.res = "ok" /\ Amounts(m1) /\ taken[2] \in Int =>
            /\ Amounts(m2) /\ m2.sol = m1.sol
            /\ \A a : Balance(m2, a) = Shift(Balance(m1, a), a, Ata(TokenB, o), TokenVault(TokenB), taken[2])
  BY <1>10, MoveLeads DEF Leads
<1> HIDE DEF m2
<1>12. /\ Leads(m2, m3) /\ Fields(m3)
       /\ m3.res = "ok" /\ Amounts(m2) /\ Amount \in Int =>
            /\ Amounts(m3) /\ m3.sol = m2.sol
            /\ \A a : Balance(m3, a) = Balance(m2, a) + (IF a = Ata(Lp, o) THEN Amount ELSE 0)
  BY <1>11, MintLeads DEF Leads
<1> HIDE DEF m3
<1>13. Leads(s, m3)
  BY <1>8, <1>9, <1>10, <1>11, <1>12, LeadsTrans
<1>14. Leads(s, t) /\ (t.res = "ok" => t = m3)
  BY <1>4, <1>5, <1>13, ProgramLeads
<1>15. ASSUME t.res = "ok" PROVE ok = s /\ m1.res = "ok" /\ m2.res = "ok" /\ m3.res = "ok" /\ t = m3
  BY <1>8, <1>9, <1>10, <1>11, <1>12, <1>14, <1>15 DEF Leads
<1>16. ASSUME t.res = "ok", Amounts(s), s.draw \in Draws
       PROVE  Pays(s, t, o, Done(k, s.draw)) /\ FeesStay(s, t)
  <2> DEFINE d == Done(k, s.draw)
             x == taken[1]
             y == taken[2]
  <2>1. Amount \in Int /\ x \in Int /\ y \in Int
    BY <1>6, <1>16, WalletConstants
  <2>2. Amounts(t) /\ t.sol = s.sol
    BY <1>10, <1>11, <1>12, <1>15, <1>16, <2>1
  <2>3. \A a : Balance(t, a) =
          Shift(Shift(Balance(s, a), a, Ata(TokenA, o), TokenVault(TokenA), x),
                a, Ata(TokenB, o), TokenVault(TokenB), y) + (IF a = Ata(Lp, o) THEN Amount ELSE 0)
    BY <1>10, <1>11, <1>12, <1>15, <1>16, <2>1
  <2>4. \A a : Balance(s, a) \in Int
    BY <1>16, BalanceInt
  <2>5. d.kind = "deposit" /\ d.draw = s.draw
    BY DoneFacts
  <2>6. \A m \in Mints : Due(d, m) = IF m = TokenA THEN -x ELSE IF m = TokenB THEN -y ELSE Amount
    <3> HIDE DEF d
    <3>1. \A m : Due(d, m) = IF m = Lp THEN Amount ELSE IF Empty \/ Stable THEN -Amount
                             ELSE -(IF m = TokenA THEN s.draw[1] ELSE IF m = TokenB THEN s.draw[2] ELSE 0)
      BY <2>5 DEF Due
    <3>. QED
      BY <1>7, <3>1, PoolTokens DEF Mints
  <2> HIDE DEF d, x, y
  <2>7. FeesStay(s, t)
    <3> SUFFICES ASSUME NEW z PROVE Balance(t, FeeAccount(z)) = Balance(s, FeeAccount(z))
      BY DEF FeesStay
    <3>1. FeeAccount(z) \notin {Ata(TokenA, o), Ata(TokenB, o), Ata(Lp, o), TokenVault(TokenA), TokenVault(TokenB)}
      BY Addresses
    <3>. QED
      BY <2>1, <2>3, <2>4, <3>1 DEF Shift
  <2>8. ASSUME NEW w \in Wallets, NEW m \in Mints
        PROVE  Balance(t, Ata(m, w)) = Balance(s, Ata(m, w)) + (IF w = o THEN Due(d, m) ELSE 0)
    <3>1. /\ \A n : Ata(m, w) = Ata(n, o) <=> m = n /\ w = o
          /\ \A n : Ata(m, w) # TokenVault(n)
      BY Addresses
    <3>2. m \in {TokenA, TokenB, Lp}
      BY DEF Mints
    <3>. QED
      BY <2>1, <2>3, <2>4, <2>6, <3>1, <3>2, PoolTokens DEF Shift
  <2>. QED
    BY <2>2, <2>7, <2>8 DEF Pays, d
<1>. QED
  BY <1>14, <1>16

\* What a withdrawal of both tokens, or of one with no minimum, asks for
Single(k) == Stable /\ (k.minA = 0 \/ k.minB = 0)

LEMMA BalancedPays ==
    ASSUME pool \in Pools, NEW s, Fields(s), NEW k, {"kind", "owner", "minA", "minB"} \subseteq DOMAIN k,
           k.kind = "withdraw", ~Single(k), NEW ix,
           ix = [name |-> "removeBalanceLiquidity", lp |-> Amount, minA |-> k.minA, minB |-> k.minB,
                 acc |-> BothAccounts(k.owner)]
    PROVE  LET t == Execute(s, ix)
           IN  /\ Leads(s, t)
               /\ t.res = "ok" => s.draw[1] >= k.minA /\ s.draw[2] >= k.minB
               /\ t.res = "ok" /\ Amounts(s) /\ s.draw \in Draws =>
                    Pays(s, t, k.owner, Done(k, s.draw)) /\ FeesStay(s, t)
<1> DEFINE o == k.owner
           acc == BothAccounts(o)
           t == Execute(s, ix)
           x == s.draw[1]
           y == s.draw[2]
           enough == x >= k.minA /\ y >= k.minB
           m1 == Burn(s, Ata(Lp, o), Amount)
           ok == Check(m1, enough, "slippage")
           m2 == Move(ok, TokenVault(TokenA), Ata(TokenA, o), x)
           m3 == Move(m2, TokenVault(TokenB), Ata(TokenB, o), y)
<1>1. /\ ix.name = "removeBalanceLiquidity" /\ ix.minA = k.minA /\ ix.minB = k.minB
      /\ ix.lp = Amount /\ ix.acc = acc
  OBVIOUS
<1>2. /\ acc.userAToken = Ata(TokenA, o) /\ acc.userBToken = Ata(TokenB, o)
      /\ acc.userPoolLp = Ata(Lp, o)
      /\ acc.aTokenVault = TokenVault(TokenA) /\ acc.bTokenVault = TokenVault(TokenB)
  BY BothFacts
<1>3. OfProgram(ix) /\ Program(s, ix) = RemoveBalanced(s, ix)
  BY <1>1 DEF OfProgram, Idl, Program
<1> HIDE DEF acc
<1>4. RemoveBalanced(s, ix) = m3
  BY <1>1, <1>2 DEF RemoveBalanced
<1> HIDE DEF enough, x, y
<1>5. /\ Leads(s, m1) /\ Fields(m1)
      /\ m1.res = "ok" /\ Amounts(s) /\ Amount \in Int =>
           /\ Amounts(m1) /\ m1.sol = s.sol
           /\ \A a : Balance(m1, a) = Balance(s, a) - (IF a = Ata(Lp, o) THEN Amount ELSE 0)
  BY BurnLeads DEF Leads
<1> HIDE DEF m1
<1>6. Leads(m1, ok) /\ Fields(ok) /\ (ok.res = "ok" => enough /\ ok = m1)
  BY <1>5, CheckLeads DEF Leads, Reasons
<1> HIDE DEF ok
<1>7. /\ Leads(ok, m2) /\ Fields(m2)
      /\ m2.res = "ok" /\ Amounts(ok) /\ x \in Int =>
           /\ Amounts(m2) /\ m2.sol = ok.sol
           /\ \A a : Balance(m2, a) = Shift(Balance(ok, a), a, TokenVault(TokenA), Ata(TokenA, o), x)
  BY <1>6, MoveLeads DEF Leads
<1> HIDE DEF m2
<1>8. /\ Leads(m2, m3) /\ Fields(m3)
      /\ m3.res = "ok" /\ Amounts(m2) /\ y \in Int =>
           /\ Amounts(m3) /\ m3.sol = m2.sol
           /\ \A a : Balance(m3, a) = Shift(Balance(m2, a), a, TokenVault(TokenB), Ata(TokenB, o), y)
  BY <1>7, MoveLeads DEF Leads
<1> HIDE DEF m3
<1>9. Leads(s, m3)
  BY <1>5, <1>6, <1>7, <1>8, LeadsTrans
<1>10. Leads(s, t) /\ (t.res = "ok" => t = m3)
  BY <1>3, <1>4, <1>9, ProgramLeads
<1>11. ASSUME t.res = "ok"
       PROVE  enough /\ ok = m1 /\ m1.res = "ok" /\ m2.res = "ok" /\ m3.res = "ok" /\ t = m3
  BY <1>5, <1>6, <1>7, <1>8, <1>10, <1>11 DEF Leads
<1>12. ASSUME t.res = "ok", Amounts(s), s.draw \in Draws
       PROVE  Pays(s, t, o, Done(k, s.draw)) /\ FeesStay(s, t)
  <2> DEFINE d == Done(k, s.draw)
  <2>1. Amount \in Int /\ x \in Int /\ y \in Int
    BY <1>12, WalletConstants DEF x, y
  <2>2. Amounts(t) /\ t.sol = s.sol
    BY <1>5, <1>7, <1>8, <1>11, <1>12, <2>1
  <2>3. \A a : Balance(t, a) =
          Shift(Shift(Balance(s, a) - (IF a = Ata(Lp, o) THEN Amount ELSE 0),
                      a, TokenVault(TokenA), Ata(TokenA, o), x), a, TokenVault(TokenB), Ata(TokenB, o), y)
    BY <1>5, <1>7, <1>8, <1>11, <1>12, <2>1
  <2>4. \A a : Balance(s, a) \in Int
    BY <1>12, BalanceInt
  <2>5. d.kind = "withdraw" /\ d.draw = s.draw /\ d.minA = k.minA /\ d.minB = k.minB
    BY DoneFacts
  <2>6. \A m \in Mints : Due(d, m) = IF m = TokenA THEN x ELSE IF m = TokenB THEN y ELSE -Amount
    <3> HIDE DEF d
    <3>1. \A m : Due(d, m) = IF m = Lp THEN -Amount
                             ELSE (IF m = TokenA THEN x ELSE IF m = TokenB THEN y ELSE 0)
      BY <2>5 DEF Due, x, y, Single
    <3>. QED
      BY <3>1, PoolTokens DEF Mints
  <2> HIDE DEF d
  <2>7. FeesStay(s, t)
    <3> SUFFICES ASSUME NEW z PROVE Balance(t, FeeAccount(z)) = Balance(s, FeeAccount(z))
      BY DEF FeesStay
    <3>1. FeeAccount(z) \notin {Ata(TokenA, o), Ata(TokenB, o), Ata(Lp, o), TokenVault(TokenA), TokenVault(TokenB)}
      BY Addresses
    <3>. QED
      BY <2>1, <2>3, <2>4, <3>1 DEF Shift
  <2>8. ASSUME NEW w \in Wallets, NEW m \in Mints
        PROVE  Balance(t, Ata(m, w)) = Balance(s, Ata(m, w)) + (IF w = o THEN Due(d, m) ELSE 0)
    <3>1. /\ \A n : Ata(m, w) = Ata(n, o) <=> m = n /\ w = o
          /\ \A n : Ata(m, w) # TokenVault(n)
      BY Addresses
    <3>2. m \in {TokenA, TokenB, Lp}
      BY DEF Mints
    <3>. QED
      BY <2>1, <2>3, <2>4, <2>6, <3>1, <3>2, PoolTokens DEF Shift
  <2>. QED
    BY <2>2, <2>7, <2>8 DEF Pays, d
<1>. QED
  BY <1>10, <1>11, <1>12 DEF enough, x, y

LEMMA SinglePays ==
    ASSUME pool \in Pools, NEW s, Fields(s), NEW k, {"kind", "owner", "minA", "minB"} \subseteq DOMAIN k,
           k.kind = "withdraw", Single(k), NEW n, n = (IF k.minB = 0 THEN TokenA ELSE TokenB), NEW acc,
           acc = [userDestinationToken |-> Ata(n, k.owner), userPoolLp |-> Ata(Lp, k.owner), lpMint |-> Lp,
                  user |-> k.owner] ++ WithTokenVaults,
           NEW ix, ix = [name |-> "removeLiquiditySingleSide", lp |-> Amount, min |-> 0, acc |-> acc]
    PROVE  LET t == Execute(s, ix)
           IN  /\ Leads(s, t)
               /\ t.res = "ok" /\ Amounts(s) /\ s.draw \in Draws =>
                    Pays(s, t, k.owner, Done(k, s.draw)) /\ FeesStay(s, t)
<1> DEFINE o == k.owner
           t == Execute(s, ix)
           x == s.draw[1]
           enough == x >= 0
           m1 == Burn(s, Ata(Lp, o), Amount)
           ok == Check(m1, enough, "slippage")
           m2 == Move(ok, TokenVault(n), Ata(n, o), x)
<1>1. acc.userDestinationToken = Ata(n, o) /\ acc.userPoolLp = Ata(Lp, o)
  BY DEF ++
<1>2. /\ ix.name = "removeLiquiditySingleSide" /\ ix.min = 0 /\ ix.lp = Amount /\ ix.acc = acc
  <2> DEFINE a == acc
  <2>1. ix = [name |-> "removeLiquiditySingleSide", lp |-> Amount, min |-> 0, acc |-> a]
    OBVIOUS
  <2> HIDE DEF a
  <2>2. ix.name = "removeLiquiditySingleSide" /\ ix.min = 0 /\ ix.lp = Amount /\ ix.acc = a
    BY <2>1
  <2>. QED
    BY <2>2 DEF a
<1>3. OfProgram(ix) /\ Program(s, ix) = RemoveSingleSide(s, ix)
  BY <1>2 DEF OfProgram, Idl, Program
<1>4. MintOf(Ata(n, o)) = n
  BY Addresses
<1>5. RemoveSingleSide(s, ix) = m2
  BY <1>1, <1>2, <1>4 DEF RemoveSingleSide
<1> HIDE DEF enough, x
<1>6. /\ Leads(s, m1) /\ Fields(m1)
      /\ m1.res = "ok" /\ Amounts(s) /\ Amount \in Int =>
           /\ Amounts(m1) /\ m1.sol = s.sol
           /\ \A a : Balance(m1, a) = Balance(s, a) - (IF a = Ata(Lp, o) THEN Amount ELSE 0)
  BY BurnLeads DEF Leads
<1> HIDE DEF m1
<1>7. Leads(m1, ok) /\ Fields(ok) /\ (ok.res = "ok" => enough /\ ok = m1)
  BY <1>6, CheckLeads DEF Leads, Reasons
<1> HIDE DEF ok
<1>8. /\ Leads(ok, m2) /\ Fields(m2)
      /\ m2.res = "ok" /\ Amounts(ok) /\ x \in Int =>
           /\ Amounts(m2) /\ m2.sol = ok.sol
           /\ \A a : Balance(m2, a) = Shift(Balance(ok, a), a, TokenVault(n), Ata(n, o), x)
  BY <1>7, MoveLeads DEF Leads
<1> HIDE DEF m2
<1>9. Leads(s, m2)
  BY <1>6, <1>7, <1>8, LeadsTrans
<1>10. Leads(s, t) /\ (t.res = "ok" => t = m2)
  BY <1>3, <1>5, <1>9, ProgramLeads
<1>11. ASSUME t.res = "ok" PROVE ok = m1 /\ m1.res = "ok" /\ m2.res = "ok" /\ t = m2
  BY <1>6, <1>7, <1>8, <1>10, <1>11 DEF Leads
<1>12. ASSUME t.res = "ok", Amounts(s), s.draw \in Draws
       PROVE  Pays(s, t, o, Done(k, s.draw)) /\ FeesStay(s, t)
  <2> DEFINE d == Done(k, s.draw)
  <2>1. Amount \in Int /\ x \in Int
    BY <1>12, WalletConstants DEF x
  <2>2. Amounts(t) /\ t.sol = s.sol
    BY <1>6, <1>8, <1>11, <1>12, <2>1
  <2>3. \A a : Balance(t, a) = Shift(Balance(s, a) - (IF a = Ata(Lp, o) THEN Amount ELSE 0),
                                     a, TokenVault(n), Ata(n, o), x)
    BY <1>6, <1>8, <1>11, <1>12, <2>1
  <2>4. \A a : Balance(s, a) \in Int
    BY <1>12, BalanceInt
  <2>5. d.kind = "withdraw" /\ d.draw = s.draw /\ d.minA = k.minA /\ d.minB = k.minB
    BY DoneFacts
  <2>6. \A m \in Mints : Due(d, m) = IF m = Lp THEN -Amount ELSE IF m = n THEN x ELSE 0
    <3> HIDE DEF d
    <3>. QED
      BY <2>5 DEF Due, x, Single
  <2>7. n \in {TokenA, TokenB} /\ n # Lp
    BY PoolTokens
  <2> HIDE DEF d
  <2>8. FeesStay(s, t)
    <3> SUFFICES ASSUME NEW z PROVE Balance(t, FeeAccount(z)) = Balance(s, FeeAccount(z))
      BY DEF FeesStay
    <3>1. FeeAccount(z) \notin {Ata(n, o), Ata(Lp, o), TokenVault(n)}
      BY Addresses
    <3>. QED
      BY <2>1, <2>3, <2>4, <3>1 DEF Shift
  <2>9. ASSUME NEW w \in Wallets, NEW m \in Mints
        PROVE  Balance(t, Ata(m, w)) = Balance(s, Ata(m, w)) + (IF w = o THEN Due(d, m) ELSE 0)
    <3>1. /\ \A l : Ata(m, w) = Ata(l, o) <=> m = l /\ w = o
          /\ \A l : Ata(m, w) # TokenVault(l)
      BY Addresses
    <3>. QED
      BY <2>1, <2>3, <2>4, <2>6, <2>7, <3>1 DEF Shift
  <2>. QED
    BY <2>2, <2>8, <2>9 DEF Pays, d
<1>. QED
  BY <1>10, <1>12

\* A claim pays token A to one wallet and token B to another.
PaysTo(s, t, a, b, k) ==
    /\ Amounts(t) /\ t.sol = s.sol
    /\ \A w \in Wallets, m \in Mints :
         Balance(t, Ata(m, w)) =
           Balance(s, Ata(m, w)) + (IF w = (IF m = TokenA THEN a ELSE b) THEN Due(k, m) ELSE 0)

LEMMA ClaimPays ==
    ASSUME pool \in Pools, NEW s, Fields(s), NEW k, "kind" \in DOMAIN k,
           k.kind \in {"claim", "claim2"}, NEW oa, NEW ob, NEW e, NEW own, NEW acc,
           acc = [lockEscrow |-> e, owner |-> own, lpMint |-> Lp,
                  sourceTokens |-> Ata(Lp, own), escrowVault |-> Ata(Lp, e),
                  userAToken |-> Ata(TokenA, oa), userBToken |-> Ata(TokenB, ob)] ++ WithTokenVaults,
           NEW ix, ix = [name |-> "claimFee", acc |-> acc]
    PROVE  LET t == Execute(s, ix)
           IN  /\ Leads(s, t)
               /\ t.res = "ok" /\ Amounts(s) /\ s.draw \in Draws =>
                    PaysTo(s, t, oa, ob, Done(k, s.draw)) /\ FeesStay(s, t)
<1> DEFINE t == Execute(s, ix)
           x == s.draw[1]
           y == s.draw[2]
           there == ix.acc.lockEscrow \in s.made
                      /\ {ix.acc.sourceTokens, ix.acc.escrowVault} \subseteq DOMAIN s.bal
           ok == Check(s, there, "missing")
           m1 == Move(ok, TokenVault(TokenA), Ata(TokenA, oa), x)
           m2 == Move(m1, TokenVault(TokenB), Ata(TokenB, ob), y)
<1>1. acc.userAToken = Ata(TokenA, oa) /\ acc.userBToken = Ata(TokenB, ob)
  BY DEF ++
<1>2. acc.aTokenVault = TokenVault(TokenA) /\ acc.bTokenVault = TokenVault(TokenB)
  BY DEF ++, WithTokenVaults
<1>3. ix.name = "claimFee" /\ ix.acc = acc
  <2> DEFINE c == acc
  <2>1. ix = [name |-> "claimFee", acc |-> c]
    OBVIOUS
  <2> HIDE DEF c
  <2>2. ix.name = "claimFee" /\ ix.acc = c
    BY <2>1
  <2>. QED
    BY <2>2 DEF c
<1>4. OfProgram(ix) /\ Program(s, ix) = ClaimFee(s, ix)
  BY <1>3 DEF OfProgram, Idl, Program
<1>5. ClaimFee(s, ix) = m2
  BY <1>1, <1>2, <1>3 DEF ClaimFee
<1> HIDE DEF there, x, y
<1>6. Leads(s, ok) /\ Fields(ok) /\ (ok.res = "ok" => ok = s)
  BY CheckLeads DEF Leads, Reasons
<1> HIDE DEF ok
<1>7. /\ Leads(ok, m1) /\ Fields(m1)
      /\ m1.res = "ok" /\ Amounts(ok) /\ x \in Int =>
           /\ Amounts(m1) /\ m1.sol = ok.sol
           /\ \A a : Balance(m1, a) = Shift(Balance(ok, a), a, TokenVault(TokenA), Ata(TokenA, oa), x)
  BY <1>6, MoveLeads DEF Leads
<1> HIDE DEF m1
<1>8. /\ Leads(m1, m2) /\ Fields(m2)
      /\ m2.res = "ok" /\ Amounts(m1) /\ y \in Int =>
           /\ Amounts(m2) /\ m2.sol = m1.sol
           /\ \A a : Balance(m2, a) = Shift(Balance(m1, a), a, TokenVault(TokenB), Ata(TokenB, ob), y)
  BY <1>7, MoveLeads DEF Leads
<1> HIDE DEF m2
<1>9. Leads(s, m2)
  BY <1>6, <1>7, <1>8, LeadsTrans
<1>10. Leads(s, t) /\ (t.res = "ok" => t = m2)
  BY <1>4, <1>5, <1>9, ProgramLeads
<1>11. ASSUME t.res = "ok" PROVE ok = s /\ m1.res = "ok" /\ m2.res = "ok" /\ t = m2
  BY <1>6, <1>7, <1>8, <1>10, <1>11 DEF Leads
<1>12. ASSUME t.res = "ok", Amounts(s), s.draw \in Draws
       PROVE  PaysTo(s, t, oa, ob, Done(k, s.draw)) /\ FeesStay(s, t)
  <2> DEFINE d == Done(k, s.draw)
  <2>1. x \in Int /\ y \in Int
    BY <1>12, WalletConstants DEF x, y
  <2>2. Amounts(t) /\ t.sol = s.sol
    BY <1>7, <1>8, <1>11, <1>12, <2>1
  <2>3. \A a : Balance(t, a) = Shift(Shift(Balance(s, a), a, TokenVault(TokenA), Ata(TokenA, oa), x),
                                     a, TokenVault(TokenB), Ata(TokenB, ob), y)
    BY <1>7, <1>8, <1>11, <1>12, <2>1
  <2>4. \A a : Balance(s, a) \in Int
    BY <1>12, BalanceInt
  <2>5. d.kind = k.kind /\ d.draw = s.draw
    BY DoneFacts
  <2>6. \A m : Due(d, m) = IF m = TokenA THEN x ELSE IF m = TokenB THEN y ELSE 0
    <3> HIDE DEF d
    <3>. QED
      BY <2>5 DEF Due, x, y
  <2> HIDE DEF d
  <2>7. FeesStay(s, t)
    <3> SUFFICES ASSUME NEW z PROVE Balance(t, FeeAccount(z)) = Balance(s, FeeAccount(z))
      BY DEF FeesStay
    <3>1. FeeAccount(z) \notin {Ata(TokenA, oa), Ata(TokenB, ob), TokenVault(TokenA), TokenVault(TokenB)}
      BY Addresses
    <3>. QED
      BY <2>1, <2>3, <2>4, <3>1 DEF Shift
  <2>8. ASSUME NEW w \in Wallets, NEW m \in Mints
        PROVE  Balance(t, Ata(m, w)) =
                 Balance(s, Ata(m, w)) + (IF w = (IF m = TokenA THEN oa ELSE ob) THEN Due(d, m) ELSE 0)
    <3>1. /\ \A n, v : Ata(m, w) = Ata(n, v) <=> m = n /\ w = v
          /\ \A n : Ata(m, w) # TokenVault(n)
      BY Addresses
    <3>2. TokenA # TokenB
      BY PoolTokens
    <3>. QED
      BY <2>1, <2>3, <2>4, <2>6, <3>1, <3>2 DEF Shift
  <2>. QED
    BY <2>2, <2>7, <2>8 DEF PaysTo, d
<1>. QED
  BY <1>10, <1>12

LEMMA MinOfTwo ==
    ASSUME NEW a \in Int, NEW b \in Int, a <= b
    PROVE  Min({a, b}) = a
<1>1. \E x \in {a, b} : \A y \in {a, b} : x <= y
  OBVIOUS
<1>2. Min({a, b}) \in {a, b} /\ \A y \in {a, b} : Min({a, b}) <= y
  BY <1>1 DEF Min
<1>. QED
  BY <1>2

\* The partner's fees are paid as asked for while there are enough.
LEMMA PartnerPays ==
    ASSUME pool \in Pools, NEW s, Fields(s), NEW k, {"kind", "owner"} \subseteq DOMAIN k,
           k.kind = "partner", NEW acc,
           acc = [pool |-> Pool, aVaultLp |-> VaultLp(TokenA, Pool),
                  protocolTokenAFee |-> FeeAccount(TokenA), protocolTokenBFee |-> FeeAccount(TokenB),
                  partnerTokenA |-> Ata(TokenA, k.owner), partnerTokenB |-> Ata(TokenB, k.owner),
                  tokenProgram |-> "tokenProgram", partnerAuthority |-> k.owner],
           NEW ix, ix = [name |-> "partnerClaimFee", a |-> Amount, b |-> Amount, acc |-> acc]
    PROVE  LET t == Execute(s, ix)
           IN  /\ Leads(s, t)
               /\ t.res = "ok" /\ Amounts(s)
                    /\ (\A m \in {TokenA, TokenB} : Balance(s, FeeAccount(m)) >= Amount) =>
                    /\ Pays(s, t, k.owner, Done(k, s.draw))
                    /\ \A m \in {TokenA, TokenB} :
                         Balance(t, FeeAccount(m)) = Balance(s, FeeAccount(m)) - Amount
<1> DEFINE o == k.owner
           t == Execute(s, ix)
           x == Min({ix.a, s.bal[FeeAccount(TokenA)]})
           y == Min({ix.b, s.bal[FeeAccount(TokenB)]})
           m1 == Move(s, FeeAccount(TokenA), Ata(TokenA, o), x)
           m2 == Move(m1, FeeAccount(TokenB), Ata(TokenB, o), y)
<1>1. /\ acc.protocolTokenAFee = FeeAccount(TokenA) /\ acc.protocolTokenBFee = FeeAccount(TokenB)
      /\ acc.partnerTokenA = Ata(TokenA, o) /\ acc.partnerTokenB = Ata(TokenB, o)
  OBVIOUS
<1>2. ix.name = "partnerClaimFee" /\ ix.acc = acc /\ ix.a = Amount /\ ix.b = Amount
  <2> DEFINE c == acc
  <2>1. ix = [name |-> "partnerClaimFee", a |-> Amount, b |-> Amount, acc |-> c]
    OBVIOUS
  <2> HIDE DEF c
  <2>2. ix.name = "partnerClaimFee" /\ ix.acc = c /\ ix.a = Amount /\ ix.b = Amount
    BY <2>1
  <2>. QED
    BY <2>2 DEF c
<1>3. OfProgram(ix) /\ Program(s, ix) = PartnerClaim(s, ix)
  BY <1>2 DEF OfProgram, Idl, Program
<1>4. PartnerClaim(s, ix) = Move(Move(s, ix.acc.protocolTokenAFee, ix.acc.partnerTokenA,
                                     Min({ix.a, s.bal[ix.acc.protocolTokenAFee]})),
                                 ix.acc.protocolTokenBFee, ix.acc.partnerTokenB,
                                 Min({ix.b, s.bal[ix.acc.protocolTokenBFee]}))
  BY DEF PartnerClaim
<1>5. PartnerClaim(s, ix) = m2
  BY <1>1, <1>2, <1>4
<1>6. s.bal[FeeAccount(TokenA)] = Balance(s, FeeAccount(TokenA)) \/ FeeAccount(TokenA) \notin DOMAIN s.bal
  BY DEF Balance
<1>7. s.bal[FeeAccount(TokenB)] = Balance(s, FeeAccount(TokenB)) \/ FeeAccount(TokenB) \notin DOMAIN s.bal
  BY DEF Balance
<1> HIDE DEF x, y
<1>8. /\ Leads(s, m1) /\ Fields(m1)
      /\ m1.res = "ok" => {FeeAccount(TokenA), Ata(TokenA, o)} \subseteq DOMAIN s.bal /\ DOMAIN m1.bal = DOMAIN s.bal
      /\ m1.res = "ok" /\ Amounts(s) /\ x \in Int =>
           /\ Amounts(m1) /\ m1.sol = s.sol
           /\ \A a : Balance(m1, a) = Shift(Balance(s, a), a, FeeAccount(TokenA), Ata(TokenA, o), x)
  BY MoveLeads DEF Leads
<1> HIDE DEF m1
<1>9. /\ Leads(m1, m2) /\ Fields(m2)
      /\ m2.res = "ok" => {FeeAccount(TokenB), Ata(TokenB, o)} \subseteq DOMAIN m1.bal
      /\ m2.res = "ok" /\ Amounts(m1) /\ y \in Int =>
           /\ Amounts(m2) /\ m2.sol = m1.sol
           /\ \A a : Balance(m2, a) = Shift(Balance(m1, a), a, FeeAccount(TokenB), Ata(TokenB, o), y)
  BY <1>8, MoveLeads DEF Leads
<1> HIDE DEF m2
<1>10. Leads(s, m2)
  BY <1>8, <1>9, LeadsTrans
<1>11. Leads(s, t) /\ (t.res = "ok" => t = m2)
  BY <1>3, <1>5, <1>10, ProgramLeads
<1>12. ASSUME t.res = "ok" PROVE m1.res = "ok" /\ m2.res = "ok" /\ t = m2
  BY <1>8, <1>9, <1>11, <1>12 DEF Leads
<1>13. ASSUME t.res = "ok", Amounts(s), \A m \in {TokenA, TokenB} : Balance(s, FeeAccount(m)) >= Amount
       PROVE  /\ Pays(s, t, o, Done(k, s.draw))
              /\ \A m \in {TokenA, TokenB} : Balance(t, FeeAccount(m)) = Balance(s, FeeAccount(m)) - Amount
  <2> DEFINE d == Done(k, s.draw)
             fa == FeeAccount(TokenA)
             fb == FeeAccount(TokenB)
  <2>0. Amount \in Int
    BY WalletConstants
  <2>1. \A a : Balance(s, a) \in Int
    BY <1>13, BalanceInt
  <2>2. fa \in DOMAIN s.bal /\ fb \in DOMAIN s.bal
    BY <1>8, <1>9, <1>12, <1>13
  <2>3. s.bal[fa] \in Int /\ s.bal[fb] \in Int /\ Amount <= s.bal[fa] /\ Amount <= s.bal[fb]
    BY <1>6, <1>7, <1>13, <2>0, <2>1, <2>2
  <2>4. x = Amount /\ y = Amount
    BY <1>2, <2>0, <2>3, MinOfTwo DEF x, y
  <2>5. Amounts(t) /\ t.sol = s.sol
    BY <1>8, <1>9, <1>12, <1>13, <2>0, <2>4
  <2>6. \A a : Balance(t, a) = Shift(Shift(Balance(s, a), a, fa, Ata(TokenA, o), Amount),
                                     a, fb, Ata(TokenB, o), Amount)
    BY <1>8, <1>9, <1>12, <1>13, <2>0, <2>4
  <2>7. d.kind = "partner"
    BY DoneFacts
  <2>8. \A m : Due(d, m) = IF m = Lp THEN 0 ELSE Amount
    <3> HIDE DEF d
    <3>. QED
      BY <2>7 DEF Due
  <2> HIDE DEF d, fa, fb
  <2>9. ASSUME NEW m \in {TokenA, TokenB}
        PROVE  Balance(t, FeeAccount(m)) = Balance(s, FeeAccount(m)) - Amount
    <3>1. FeeAccount(m) = fa <=> m = TokenA
      BY Addresses DEF fa
    <3>2. FeeAccount(m) = fb <=> m = TokenB
      BY Addresses DEF fb
    <3>3. FeeAccount(m) \notin {Ata(TokenA, o), Ata(TokenB, o)}
      BY Addresses
    <3>. QED
      BY <2>0, <2>1, <2>6, <3>1, <3>2, <3>3, PoolTokens DEF Shift
  <2>10. ASSUME NEW w \in Wallets, NEW m \in Mints
        PROVE  Balance(t, Ata(m, w)) = Balance(s, Ata(m, w)) + (IF w = o THEN Due(d, m) ELSE 0)
    <3>1. \A n : Ata(m, w) = Ata(n, o) <=> m = n /\ w = o
      BY Addresses
    <3>2. Ata(m, w) # fa /\ Ata(m, w) # fb
      BY Addresses DEF fa, fb
    <3>3. m \in {TokenA, TokenB, Lp}
      BY DEF Mints
    <3>. QED
      BY <2>0, <2>1, <2>6, <2>8, <3>1, <3>2, <3>3, PoolTokens DEF Shift
  <2>. QED
    BY <2>5, <2>9, <2>10 DEF Pays, d
<1>. QED
  BY <1>11, <1>13

-----------------------------------------------------------------------------
(* The instructions of a call                                              *)

LEMMA Joined ==
    ASSUME NEW s, NEW t, s \in Seq(ToSet(s)), t \in Seq(ToSet(t))
    PROVE  ToSet(s \o t) = ToSet(s) \cup ToSet(t) /\ s \o t \in Seq(ToSet(s \o t))
<1> DEFINE S == ToSet(s) \cup ToSet(t)
           u == s \o t
<1>1. s \in Seq(S) /\ t \in Seq(S)
  OBVIOUS
<1> HIDE DEF S
<1>2. /\ Len(s) \in Nat /\ Len(t) \in Nat /\ DOMAIN s = 1..Len(s) /\ DOMAIN t = 1..Len(t)
      /\ u \in Seq(S) /\ Len(u) = Len(s) + Len(t) /\ DOMAIN u = 1..Len(u)
      /\ \A i \in 1..Len(s) : u[i] = s[i]
      /\ \A i \in 1..Len(t) : u[Len(s) + i] = t[i]
  BY <1>1
<1> HIDE DEF u
<1>3. ToSet(u) \subseteq S
  BY <1>2 DEF ToSet
<1>4. ASSUME NEW e \in ToSet(s) PROVE e \in ToSet(u)
  <2>1. PICK i \in DOMAIN s : s[i] = e
    BY DEF ToSet
  <2>2. i \in DOMAIN u /\ u[i] = e
    BY <1>2, <2>1
  <2>. QED
    BY <2>2 DEF ToSet
<1>5. ASSUME NEW e \in ToSet(t) PROVE e \in ToSet(u)
  <2>1. PICK i \in DOMAIN t : t[i] = e
    BY DEF ToSet
  <2>2. Len(s) + i \in DOMAIN u /\ u[Len(s) + i] = e
    BY <1>2, <2>1
  <2>. QED
    BY <2>2 DEF ToSet
<1>6. ToSet(u) = S
  BY <1>3, <1>4, <1>5 DEF S
<1>. QED
  BY <1>2, <1>6 DEF u, S

LEMMA One ==
    ASSUME NEW x
    PROVE  <<x>> \in Seq(ToSet(<<x>>)) /\ ToSet(<<x>>) = {x}
<1>1. ToSet(<<x>>) = {x}
  BY DEF ToSet
<1>. QED
  BY <1>1

LEMMA Nothing == <<>> \in Seq(ToSet(<<>>)) /\ ToSet(<<>>) = {}
<1>1. ToSet(<<>>) = {}
  BY DEF ToSet
<1>. QED
  BY <1>1

\* Lists of lists, put together
LEMMA FlattenTwo ==
    ASSUME NEW a, NEW b
    PROVE  FlattenSeq(<<a, b>>) = a \o b
<1> DEFINE q == <<a, b>>
           Body(g) == [i \in 1..Len(q) |-> IF i = 1 THEN q[i] ELSE g[i - 1] \o q[i]]
           f == CHOOSE g : g = Body(g)
           h == [i \in 1..2 |-> IF i = 1 THEN a ELSE a \o b]
<1>1. Len(q) = 2 /\ q[1] = a /\ q[2] = b
  OBVIOUS
<1>2. FlattenSeq(q) = f[2]
  BY <1>1 DEF FlattenSeq
<1> HIDE DEF q
<1>3. h = Body(h)
  BY <1>1
<1>4. f = Body(f)
  <2> HIDE DEF h, Body
  <2>. QED
    BY <1>3
<1> HIDE DEF f, h
<1>5. f[1] = q[1] /\ f[2] = f[1] \o q[2]
  <2>1. 1 \in 1..Len(q) /\ 2 \in 1..Len(q) /\ 2 - 1 = 1 /\ 2 # 1
    BY <1>1
  <2>2. \A i \in 1..Len(q) : f[i] = IF i = 1 THEN q[i] ELSE f[i - 1] \o q[i]
    BY <1>4
  <2>. QED
    BY <2>1, <2>2
<1>. QED
  BY <1>1, <1>2, <1>5 DEF q

LEMMA FlattenThree ==
    ASSUME NEW q, Len(q) = 3
    PROVE  FlattenSeq(q) = (q[1] \o q[2]) \o q[3]
<1> DEFINE Body(g) == [i \in 1..Len(q) |-> IF i = 1 THEN q[i] ELSE g[i - 1] \o q[i]]
           f == CHOOSE g : g = Body(g)
           h == [i \in 1..3 |-> IF i = 1 THEN q[1] ELSE IF i = 2 THEN q[1] \o q[2] ELSE (q[1] \o q[2]) \o q[3]]
<1>1. Len(q) = 3
  OBVIOUS
<1>2. FlattenSeq(q) = f[3]
  BY <1>1 DEF FlattenSeq
<1>3. h = Body(h)
  BY <1>1
<1>4. f = Body(f)
  <2> HIDE DEF h, Body
  <2>. QED
    BY <1>3
<1> HIDE DEF f, h
<1>5. f[1] = q[1] /\ f[2] = f[1] \o q[2] /\ f[3] = f[2] \o q[3]
  <2>1. 1 \in 1..Len(q) /\ 2 \in 1..Len(q) /\ 3 \in 1..Len(q) /\ 2 - 1 = 1 /\ 3 - 1 = 2 /\ 2 # 1 /\ 3 # 1
    BY <1>1
  <2>2. \A i \in 1..Len(q) : f[i] = IF i = 1 THEN q[i] ELSE f[i - 1] \o q[i]
    BY <1>4
  <2>3. f[1] = q[1]
    BY <2>1, <2>2
  <2>4. f[2] = f[1] \o q[2]
    BY <2>1, <2>2
  <2>5. f[3] = f[2] \o q[3]
    BY <2>1, <2>2
  <2>. QED
    BY <2>3, <2>4, <2>5
<1>. QED
  BY <1>1, <1>2, <1>5

\* Instructions that move no value, signed by wallets in W
Prepares(ixs, W) == AllNeutral(ixs) /\ \A ix \in ToSet(ixs) : Signers(ix) \subseteq W

LEMMA PreparesJoined ==
    ASSUME NEW W, NEW a, NEW b, Prepares(a, W), Prepares(b, W)
    PROVE  Prepares(a \o b, W)
BY Joined DEF Prepares, AllNeutral

LEMMA NothingPrepares ==
    ASSUME NEW W
    PROVE  Prepares(<<>>, W)
BY Nothing DEF Prepares, AllNeutral

LEMMA OnePrepares ==
    ASSUME NEW W, NEW ix, Neutral(ix), ix.signers \subseteq W
    PROVE  Prepares(<<ix>>, W)
<1>1. ~OfProgram(ix)
  BY DEF Neutral, OfProgram, Idl
<1>. QED
  BY <1>1, One DEF Prepares, AllNeutral, Signers

LEMMA AtaPrepares ==
    ASSUME NEW W, NEW seen, NEW m, NEW o, NEW payer \in W
    PROVE  Prepares(GetOrCreateATA(seen, m, o, payer), W)
<1> DEFINE ix == [name |-> "createAta", account |-> Ata(m, o), signers |-> {payer}]
<1>1. ix.name = "createAta" /\ ix.signers = {payer}
  OBVIOUS
<1>2. GetOrCreateATA(seen, m, o, payer) \in {<<>>, <<ix>>}
  BY DEF GetOrCreateATA
<1> HIDE DEF ix
<1>3. Neutral(ix)
  BY <1>1 DEF Neutral
<1>. QED
  BY <1>1, <1>2, <1>3, NothingPrepares, OnePrepares

LEMMA WrapPrepares ==
    ASSUME NEW W, NEW m, NEW o \in W, o \in Users, NEW x \in Int
    PROVE  Prepares(WrapSOL(m, o, x), W)
<1> DEFINE ix == [name |-> "wrap", from |-> o, to |-> Ata(Native, o), amount |-> x, signers |-> {o}]
<1>1. ix.name = "wrap" /\ ix.from = o /\ ix.to = Ata(Native, o) /\ ix.amount = x /\ ix.signers = {o}
  OBVIOUS
<1>2. WrapSOL(m, o, x) \in {<<>>, <<ix>>}
  BY DEF WrapSOL
<1> HIDE DEF ix
<1>3. Neutral(ix)
  BY <1>1 DEF Neutral
<1>. QED
  BY <1>1, <1>2, <1>3, NothingPrepares, OnePrepares

LEMMA UnwrapPrepares ==
    ASSUME NEW W, NEW o \in W, o \in Users
    PROVE  Prepares(UnwrapSOL(o, o), W)
<1> DEFINE ix == [name |-> "close", account |-> Ata(Native, o), receiver |-> o, signers |-> {o}]
<1>1. ix.name = "close" /\ ix.account = Ata(Native, o) /\ ix.receiver = o /\ ix.signers = {o}
  OBVIOUS
<1>2. UnwrapSOL(o, o) = <<ix>>
  BY DEF UnwrapSOL
<1> HIDE DEF ix
<1>3. Neutral(ix)
  BY <1>1 DEF Neutral
<1>. QED
  BY <1>1, <1>2, <1>3, OnePrepares

LEMMA CreateTwo ==
    ASSUME NEW k, NEW a, NEW b
    PROVE  CreateATAPre(k, <<a, b>>) =
             GetOrCreateATA(k.seen, a, k.owner, k.owner) \o GetOrCreateATA(k.seen, b, k.owner, k.owner)
<1> DEFINE G(m) == GetOrCreateATA(k.seen, m, k.owner, k.owner)
           two == <<a, b>>
           q == [i \in DOMAIN two |-> G(two[i])]
<1>1. q = <<G(a), G(b)>>
  <2> HIDE DEF G
  <2>. QED
    OBVIOUS
<1>2. CreateATAPre(k, <<a, b>>) = FlattenSeq(<<G(a), G(b)>>)
  BY <1>1 DEF CreateATAPre
<1>. QED
  BY <1>2, FlattenTwo

LEMMA CreateThree ==
    ASSUME NEW k, NEW I, NEW q \in Seq(I), Len(q) = 3
    PROVE  CreateATAPre(k, q) =
             (GetOrCreateATA(k.seen, q[1], k.owner, k.owner) \o GetOrCreateATA(k.seen, q[2], k.owner, k.owner))
               \o GetOrCreateATA(k.seen, q[3], k.owner, k.owner)
<1> DEFINE r == [i \in DOMAIN q |-> GetOrCreateATA(k.seen, q[i], k.owner, k.owner)]
<1>1. CreateATAPre(k, q) = FlattenSeq(r)
  BY DEF CreateATAPre
<1>2. \A i \in 1..3 : r[i] = GetOrCreateATA(k.seen, q[i], k.owner, k.owner)
  OBVIOUS
<1>3. r \in Seq(Range(r)) /\ Len(r) = 3
  <2>1. DOMAIN r = 1..3
    OBVIOUS
  <2>2. \A i \in 1..3 : r[i] \in Range(r)
    BY <2>1 DEF Range
  <2>3. r = [i \in 1..3 |-> r[i]]
    BY <2>1
  <2> HIDE DEF r
  <2>. QED
    BY <2>2, <2>3
<1> HIDE DEF r
<1>4. FlattenSeq(r) = (r[1] \o r[2]) \o r[3]
  BY <1>3, FlattenThree
<1> DEFINE x == GetOrCreateATA(k.seen, q[1], k.owner, k.owner)
           y == GetOrCreateATA(k.seen, q[2], k.owner, k.owner)
           z == GetOrCreateATA(k.seen, q[3], k.owner, k.owner)
<1>5. r[1] = x /\ r[2] = y /\ r[3] = z
  BY <1>2
<1> HIDE DEF x, y, z
<1>6. CreateATAPre(k, q) = (x \o y) \o z
  BY <1>1, <1>4, <1>5
<1>. QED
  BY <1>6 DEF x, y, z

LEMMA CreatePrepares ==
    ASSUME NEW W, NEW k, k.owner \in W, NEW a, NEW b, NEW c
    PROVE  Prepares(CreateATAPre(k, <<a, b>>), W) /\ Prepares(CreateATAPre(k, <<a, b, c>>), W)
<1> DEFINE G(m) == GetOrCreateATA(k.seen, m, k.owner, k.owner)
<1>1. \A m : Prepares(G(m), W)
  BY AtaPrepares
<1>2. CreateATAPre(k, <<a, b>>) = G(a) \o G(b)
  BY CreateTwo
<1> DEFINE x == G(a)
           y == G(b)
           z == G(c)
<1>3. CreateATAPre(k, <<a, b, c>>) = (x \o y) \o z
  <2> DEFINE q == <<a, b, c>>
  <2>1. q \in Seq({a, b, c}) /\ Len(q) = 3 /\ q[1] = a /\ q[2] = b /\ q[3] = c
    OBVIOUS
  <2> HIDE DEF q
  <2>2. CreateATAPre(k, q) = (G(q[1]) \o G(q[2])) \o G(q[3])
    BY <2>1, CreateThree
  <2> HIDE DEF G
  <2>. QED
    BY <2>1, <2>2 DEF q
<1> HIDE DEF G
<1>4. Prepares(G(a) \o G(b), W)
  BY <1>1, PreparesJoined
<1>5. Prepares((x \o y) \o z, W)
  <2>1. Prepares(x, W) /\ Prepares(y, W) /\ Prepares(z, W)
    BY <1>1
  <2> HIDE DEF x, y, z
  <2>. QED
    BY <2>1, PreparesJoined
<1>. QED
  BY <1>2, <1>3, <1>4, <1>5

\* A call that was asked for
Asked(k) ==
    /\ {"kind", "owner"} \subseteq DOMAIN k /\ k.owner \in Users
    /\ \/ /\ k.kind = "swap" /\ {"mint", "min", "other"} \subseteq DOMAIN k
          /\ k.mint \in {TokenA, TokenB}
       \/ k.kind = "deposit"
       \/ k.kind = "withdraw" /\ {"minA", "minB"} \subseteq DOMAIN k
       \/ /\ k.kind \in {"claim", "claim2"} /\ {"other", "payer"} \subseteq DOMAIN k
          /\ k.other \in Users /\ k.payer \in Users
       \/ k.kind = "partner"

\* The transaction of a call is one instruction of the program among others
\* that move no value.
Plain(k, pre, main, post) ==
    /\ Tx(k) = (pre \o <<main>>) \o post
    /\ Prepares(pre, Parties(k)) /\ Prepares(post, Parties(k))
    /\ post = <<>> \/ \E ix : post = <<ix>>

LEMMA OwnUnwrap ==
    ASSUME NEW k, k.owner \in Users, NEW b, NEW post,
           post = (IF b THEN UnwrapSOL(k.owner, k.owner) ELSE <<>>)
    PROVE  Prepares(post, Parties(k)) /\ (post = <<>> \/ \E ix : post = <<ix>>)
<1>1. k.owner \in Parties(k)
  BY DEF Parties
<1>2. Prepares(post, Parties(k))
  BY <1>1, UnwrapPrepares, NothingPrepares
<1>3. \E ix : UnwrapSOL(k.owner, k.owner) = <<ix>>
  BY DEF UnwrapSOL
<1>. QED
  BY <1>2, <1>3

LEMMA SwapShape ==
    ASSUME NEW k, Asked(k), k.kind = "swap"
    PROVE  \E pre, main, post : Plain(k, pre, main, post) /\ SwapInstruction(k) = <<main>>
<1> DEFINE dst == IF k.mint = TokenA THEN TokenB ELSE TokenA
           p1 == CreateATAPre(k, <<k.mint, dst>>)
           p2 == WrapSOL(k.mint, k.owner, Amount)
           p3 == IF k.other = k.owner THEN <<>> ELSE GetOrCreateATA(k.seen, k.mint, k.other, k.owner)
           pre == (p1 \o p2) \o p3
           post == IF dst = Native THEN UnwrapSOL(k.owner, k.owner) ELSE <<>>
           W == Parties(k)
<1>1. PICK main : SwapInstruction(k) = <<main>>
  BY DEF SwapInstruction
<1>2. Tx(k) = (pre \o <<main>>) \o post
  <2>1. Tx(k) = SwapTx(k)
    BY DEF Tx
  <2>. QED
    BY <1>1, <2>1 DEF SwapTx
<1>3. k.owner \in Users /\ k.owner \in W /\ Amount \in Int
  BY WalletConstants DEF Asked, Parties
<1> HIDE DEF W, dst
<1>4. Prepares(p1, W)
  BY <1>3, CreatePrepares
<1>5. Prepares(p2, W)
  BY <1>3, WrapPrepares
<1>6. Prepares(p3, W)
  BY <1>3, AtaPrepares, NothingPrepares
<1>7. Prepares(post, W) /\ (post = <<>> \/ \E ix : post = <<ix>>)
  BY <1>3, OwnUnwrap DEF W
<1> HIDE DEF p1, p2, p3, post
<1>8. Prepares(pre, W)
  BY <1>4, <1>5, <1>6, PreparesJoined
<1> HIDE DEF pre
<1>9. Plain(k, pre, main, post)
  BY <1>2, <1>7, <1>8 DEF Plain, W
<1>. QED
  BY <1>1, <1>9

LEMMA DepositShape ==
    ASSUME NEW k, Asked(k), k.kind = "deposit"
    PROVE  \E pre, main, post :
             /\ Plain(k, pre, main, post)
             /\ main = [name |-> DepositMethod, a |-> Amount, b |-> Amount, lp |-> Amount,
                        acc |-> BothAccounts(k.owner)]
<1> DEFINE p1 == CreateATAPre(k, <<TokenA, TokenB, Lp>>)
           p2 == WrapSOL(TokenA, k.owner, Amount)
           p3 == WrapSOL(TokenB, k.owner, Amount)
           pre == (p1 \o p2) \o p3
           main == [name |-> DepositMethod, a |-> Amount, b |-> Amount, lp |-> Amount,
                    acc |-> BothAccounts(k.owner)]
           post == IF IsNativePool THEN UnwrapSOL(k.owner, k.owner) ELSE <<>>
           W == Parties(k)
<1>1. Tx(k) = (pre \o <<main>>) \o post
  <2>1. Tx(k) = DepositTx(k)
    BY DEF Tx
  <2>. QED
    BY <2>1 DEF DepositTx
<1>2. k.owner \in Users /\ k.owner \in W /\ Amount \in Int
  BY WalletConstants DEF Asked, Parties
<1> HIDE DEF W
<1>3. Prepares(p1, W)
  BY <1>2, CreatePrepares
<1>4. Prepares(p2, W) /\ Prepares(p3, W)
  BY <1>2, WrapPrepares
<1>5. Prepares(post, W) /\ (post = <<>> \/ \E ix : post = <<ix>>)
  BY <1>2, OwnUnwrap DEF W
<1> HIDE DEF p1, p2, p3, post
<1>6. Prepares(pre, W)
  BY <1>3, <1>4, PreparesJoined
<1> HIDE DEF pre
<1>7. Plain(k, pre, main, post)
  <2> HIDE DEF main
  <2>. QED
    BY <1>1, <1>5, <1>6 DEF Plain, W
<1>. QED
  BY <1>7

LEMMA WithdrawShape ==
    ASSUME NEW k, Asked(k), k.kind = "withdraw"
    PROVE  \E pre, main, post : Plain(k, pre, main, post) /\ WithdrawInstruction(k) = <<main>>
<1> DEFINE pre == CreateATAPre(k, <<TokenA, TokenB, Lp>>)
           post == IF IsNativePool THEN UnwrapSOL(k.owner, k.owner) ELSE <<>>
           W == Parties(k)
<1>1. PICK main : WithdrawInstruction(k) = <<main>>
  BY DEF WithdrawInstruction
<1>2. Tx(k) = (pre \o <<main>>) \o post
  <2>1. Tx(k) = WithdrawTx(k)
    BY DEF Tx
  <2>. QED
    BY <1>1, <2>1 DEF WithdrawTx
<1>3. k.owner \in Users /\ k.owner \in W
  BY DEF Asked, Parties
<1> HIDE DEF W
<1>4. Prepares(pre, W)
  BY <1>3, CreatePrepares
<1>5. Prepares(post, W) /\ (post = <<>> \/ \E ix : post = <<ix>>)
  BY <1>3, OwnUnwrap DEF W
<1> HIDE DEF pre, post
<1>6. Plain(k, pre, main, post)
  BY <1>2, <1>4, <1>5 DEF Plain, W
<1>. QED
  BY <1>1, <1>6

LEMMA PartnerShape ==
    ASSUME NEW k, Asked(k), k.kind = "partner"
    PROVE  \E pre, main, post :
             /\ Plain(k, pre, main, post)
             /\ main = [name |-> "partnerClaimFee", a |-> Amount, b |-> Amount,
                        acc |-> [pool |-> Pool, aVaultLp |-> VaultLp(TokenA, Pool),
                                 protocolTokenAFee |-> FeeAccount(TokenA),
                                 protocolTokenBFee |-> FeeAccount(TokenB),
                                 partnerTokenA |-> Ata(TokenA, k.owner),
                                 partnerTokenB |-> Ata(TokenB, k.owner),
                                 tokenProgram |-> "tokenProgram", partnerAuthority |-> k.owner]]
<1> DEFINE pre == CreateATAPre(k, <<TokenA, TokenB>>)
           main == [name |-> "partnerClaimFee", a |-> Amount, b |-> Amount,
                    acc |-> [pool |-> Pool, aVaultLp |-> VaultLp(TokenA, Pool),
                             protocolTokenAFee |-> FeeAccount(TokenA),
                             protocolTokenBFee |-> FeeAccount(TokenB),
                             partnerTokenA |-> Ata(TokenA, k.owner),
                             partnerTokenB |-> Ata(TokenB, k.owner),
                             tokenProgram |-> "tokenProgram", partnerAuthority |-> k.owner]]
           W == Parties(k)
<1>1. Tx(k) = pre \o <<main>>
  <2>1. Tx(k) = PartnerClaimTx(k)
    BY DEF Tx
  <2>. QED
    BY <2>1 DEF PartnerClaimTx
<1>2. k.owner \in W
  BY DEF Parties
<1> HIDE DEF W
<1>3. Prepares(pre, W)
  BY <1>2, CreatePrepares
<1> HIDE DEF pre
<1>4. Plain(k, pre, main, <<>>)
  <2> HIDE DEF main
  <2>1. pre \o <<main>> \in Seq(ToSet(pre \o <<main>>))
    BY <1>3, Joined, One DEF Prepares, AllNeutral
  <2>2. (pre \o <<main>>) \o <<>> = pre \o <<main>>
    BY <2>1
  <2>. QED
    BY <1>1, <1>3, <2>2, NothingPrepares DEF Plain, W
<1>. QED
  BY <1>4

\* The wallet whose wrapped SOL account a claim is paid to
TempOf(k) == IF k.kind = "claim" /\ k.other # k.owner THEN Temp ELSE k.owner

\* The wallet that a claim pays the token to
PaidTo(k, mint) == IF mint = Native THEN TempOf(k) ELSE k.other

ClaimAccounts(k) ==
    [lockEscrow |-> EscrowOf(k.owner), owner |-> k.owner, lpMint |-> Lp,
     sourceTokens |-> Ata(Lp, k.owner), escrowVault |-> Ata(Lp, EscrowOf(k.owner)),
     userAToken |-> Ata(TokenA, PaidTo(k, TokenA)), userBToken |-> Ata(TokenB, PaidTo(k, TokenB))]
    ++ WithTokenVaults

LEMMA ClaimForm ==
    ASSUME NEW k, Asked(k), k.kind \in {"claim", "claim2"}
    PROVE  LET p1 == GetOrCreateATA(k.seen, Lp, k.owner, k.payer)
               p2 == GetOrCreateATA(k.seen, Lp, EscrowOf(k.owner), k.payer)
               p3 == GetOrCreateATA(k.seen, TokenA, PaidTo(k, TokenA), k.payer)
               p4 == GetOrCreateATA(k.seen, TokenB, PaidTo(k, TokenB), k.payer)
           IN  /\ Prepares(((p1 \o p2) \o p3) \o p4, Parties(k))
               /\ Tx(k) = ((((p1 \o p2) \o p3) \o p4) \o <<[name |-> "claimFee", acc |-> ClaimAccounts(k)]>>)
                            \o (IF IsNativePool THEN UnwrapSOL(TempOf(k), k.other) ELSE <<>>)
<1> DEFINE a == PaidTo(k, TokenA)
           b == PaidTo(k, TokenB)
           p1 == GetOrCreateATA(k.seen, Lp, k.owner, k.payer)
           p2 == GetOrCreateATA(k.seen, Lp, EscrowOf(k.owner), k.payer)
           p3 == GetOrCreateATA(k.seen, TokenA, a, k.payer)
           p4 == GetOrCreateATA(k.seen, TokenB, b, k.payer)
           pre == ((p1 \o p2) \o p3) \o p4
           main == [name |-> "claimFee", acc |-> ClaimAccounts(k)]
           post == IF IsNativePool THEN UnwrapSOL(TempOf(k), k.other) ELSE <<>>
           W == Parties(k)
<1>1. ClaimInstructions(k, a, b) = pre \o <<main>>
  BY DEF ClaimInstructions, ClaimAccounts
<1>2. k.payer \in W
  BY DEF Parties
<1> HIDE DEF W
<1>3. Prepares(p1, W) /\ Prepares(p2, W) /\ Prepares(p3, W) /\ Prepares(p4, W)
  BY <1>2, AtaPrepares
<1> HIDE DEF p1, p2, p3, p4
<1>4. Prepares(pre, W)
  BY <1>3, PreparesJoined
<1> HIDE DEF pre, main
<1>5. (pre \o <<main>>) \o <<>> = pre \o <<main>>
  <2>1. pre \o <<main>> \in Seq(ToSet(pre \o <<main>>))
    BY <1>4, Joined, One DEF Prepares, AllNeutral
  <2>. QED
    BY <2>1
<1>6. Tx(k) = (pre \o <<main>>) \o post
  <2>1. CASE k.kind = "claim" /\ IsNativePool
    <3>1. Tx(k) = ClaimLockFeeTx(k)
      BY <2>1 DEF Tx
    <3>2. ClaimLockFeeTx(k) = ClaimWithQuoteMintSol(k, k.other, TempOf(k))
      BY <2>1 DEF ClaimLockFeeTx, TempOf
    <3>3. ClaimWithQuoteMintSol(k, k.other, TempOf(k)) = ClaimInstructions(k, a, b) \o UnwrapSOL(TempOf(k), k.other)
      BY DEF ClaimWithQuoteMintSol, PaidTo
    <3>. QED
      BY <1>1, <2>1, <3>1, <3>2, <3>3
  <2>2. CASE k.kind = "claim" /\ ~IsNativePool
    <3>1. Tx(k) = ClaimLockFeeTx(k)
      BY <2>2 DEF Tx
    <3>2. ClaimLockFeeTx(k) = ClaimInstructions(k, k.other, k.other)
      BY <2>2 DEF ClaimLockFeeTx, ClaimWithQuoteMintNotSol
    <3>3. a = k.other /\ b = k.other
      BY <2>2 DEF PaidTo, IsNativePool
    <3>. QED
      BY <1>1, <1>5, <2>2, <3>1, <3>2, <3>3
  <2>3. CASE k.kind = "claim2"
    <3>1. Tx(k) = ClaimLockFee2Tx(k)
      BY <2>3 DEF Tx
    <3>2. TempOf(k) = k.owner
      BY <2>3 DEF TempOf
    <3>3. ClaimLockFee2Tx(k) = ClaimInstructions(k, a, b) \o post
      BY <3>2 DEF ClaimLockFee2Tx, PaidTo
    <3>. QED
      BY <1>1, <3>1, <3>3
  <2>. QED
    BY <2>1, <2>2, <2>3
<1>. QED
  BY <1>4, <1>6 DEF W, main, pre, p1, p2, p3, p4

LEMMA ClaimShape ==
    ASSUME NEW k, Asked(k), k.kind \in {"claim", "claim2"}
    PROVE  \E pre, main, post :
             /\ Tx(k) = (pre \o <<main>>) \o post
             /\ Prepares(pre, Parties(k))
             /\ main = [name |-> "claimFee", acc |-> ClaimAccounts(k)]
             /\ post = IF IsNativePool THEN UnwrapSOL(TempOf(k), k.other) ELSE <<>>
BY ClaimForm

-----------------------------------------------------------------------------
(* Signatures                                                              *)
\* The instruction of the program in the transaction of a call
IsMain(k, ix) ==
    \/ k.kind = "swap" /\ SwapInstruction(k) = <<ix>>
    \/ k.kind = "deposit" /\ ix = [name |-> DepositMethod, a |-> Amount, b |-> Amount,
                                   lp |-> Amount, acc |-> BothAccounts(k.owner)]
    \/ k.kind = "withdraw" /\ WithdrawInstruction(k) = <<ix>>
    \/ k.kind \in {"claim", "claim2"} /\ ix = [name |-> "claimFee", acc |-> ClaimAccounts(k)]
    \/ k.kind = "partner" /\
       ix = [name |-> "partnerClaimFee", a |-> Amount, b |-> Amount,
             acc |-> [pool |-> Pool, aVaultLp |-> VaultLp(TokenA, Pool),
                      protocolTokenAFee |-> FeeAccount(TokenA),
                      protocolTokenBFee |-> FeeAccount(TokenB),
                      partnerTokenA |-> Ata(TokenA, k.owner),
                      partnerTokenB |-> Ata(TokenB, k.owner),
                      tokenProgram |-> "tokenProgram", partnerAuthority |-> k.owner]]

LEMMA VaultRoles ==
    DOMAIN WithTokenVaults = PoolVaults \cup TokenVaults \cup Programs \cup {"pool"}
<1>1. DOMAIN VaultAccounts = PoolVaults \cup {"pool", "tokenProgram"}
  BY DEF VaultAccounts, PoolVaults
<1>. QED
  BY <1>1 DEF WithTokenVaults, ++, TokenVaults, Programs

\* The instruction of the program gets all accounts it needs, and its signer.
LEMMA MainSigned ==
    ASSUME NEW k, Asked(k), NEW ix, IsMain(k, ix)
    PROVE  WellFormed(ix) /\ Signers(ix) \subseteq Parties(k)
<1>1. k.owner \in Parties(k)
  BY DEF Parties
<1>2. ASSUME NEW own, NEW acc, acc = own ++ WithTokenVaults
      PROVE  /\ DOMAIN acc = DOMAIN own \cup PoolVaults \cup TokenVaults \cup Programs \cup {"pool"}
             /\ \A r \in DOMAIN own : acc[r] = own[r]
  BY <1>2, VaultRoles DEF ++
<1>3. CASE k.kind = "swap" /\ SwapInstruction(k) = <<ix>>
  <2> DEFINE own == [userSourceToken |-> Ata(k.mint, k.owner),
                     userDestinationToken |-> Ata(IF k.mint = TokenA THEN TokenB ELSE TokenA, k.owner),
                     user |-> k.owner, protocolTokenFee |-> FeeAccount(k.mint)]
             acc == own ++ WithTokenVaults
  <2>1. ix.name = "swap" /\ ix.acc = acc
    BY <1>3 DEF SwapInstruction
  <2>2. DOMAIN own = {"userSourceToken", "userDestinationToken", "user", "protocolTokenFee"} /\ own.user = k.owner
    OBVIOUS
  <2> HIDE DEF own
  <2>3. /\ DOMAIN acc = DOMAIN own \cup PoolVaults \cup TokenVaults \cup Programs \cup {"pool"}
        /\ \A r \in DOMAIN own : acc[r] = own[r]
    BY <1>2
  <2> HIDE DEF acc
  <2>4. Idl["swap"] = SwapIx /\ OfProgram(ix)
    BY <2>1 DEF Idl, OfProgram
  <2>. QED
    BY <1>1, <2>1, <2>2, <2>3, <2>4 DEF WellFormed, Signers, Roles, SwapIx
<1>4. ASSUME ix.acc = BothAccounts(k.owner),
             ix.name \in {"addBalanceLiquidity", "addImbalanceLiquidity", "bootstrapLiquidity",
                          "removeBalanceLiquidity"}
      PROVE  WellFormed(ix) /\ Signers(ix) \subseteq Parties(k)
  <2> DEFINE own == [userAToken |-> Ata(TokenA, k.owner), userBToken |-> Ata(TokenB, k.owner),
                     userPoolLp |-> Ata(Lp, k.owner), lpMint |-> Lp, user |-> k.owner]
             acc == own ++ WithTokenVaults
  <2>1. ix.acc = acc
    BY <1>4 DEF BothAccounts
  <2>2. DOMAIN own = {"userAToken", "userBToken", "userPoolLp", "lpMint", "user"} /\ own.user = k.owner
    OBVIOUS
  <2> HIDE DEF own
  <2>3. /\ DOMAIN acc = DOMAIN own \cup PoolVaults \cup TokenVaults \cup Programs \cup {"pool"}
        /\ \A r \in DOMAIN own : acc[r] = own[r]
    BY <1>2
  <2> HIDE DEF acc
  <2>4. /\ Idl[ix.name] = [signer |-> {"user"}, writable |-> BothSides, readonly |-> Programs \cup {"user"}]
        /\ OfProgram(ix)
    <3>1. /\ Idl["addBalanceLiquidity"] = AddBalanceLiquidityIx
          /\ Idl["addImbalanceLiquidity"] = AddImbalanceLiquidityIx
          /\ Idl["bootstrapLiquidity"] = BootstrapLiquidityIx
          /\ Idl["removeBalanceLiquidity"] = RemoveBalanceLiquidityIx
      BY DEF Idl
    <3>2. OfProgram(ix)
      BY <1>4 DEF Idl, OfProgram
    <3>. QED
      BY <1>4, <3>1, <3>2 DEF AddBalanceLiquidityIx, AddImbalanceLiquidityIx, BootstrapLiquidityIx,
                              RemoveBalanceLiquidityIx
  <2>. QED
    BY <1>1, <2>1, <2>2, <2>3, <2>4 DEF WellFormed, Signers, Roles, BothSides
<1>5. CASE k.kind = "deposit" /\ ix = [name |-> DepositMethod, a |-> Amount, b |-> Amount,
                                       lp |-> Amount, acc |-> BothAccounts(k.owner)]
  <2>1. ix.name = DepositMethod /\ ix.acc = BothAccounts(k.owner)
    BY <1>5
  <2>. QED
    BY <1>4, <2>1 DEF DepositMethod
<1>6. CASE k.kind = "withdraw" /\ WithdrawInstruction(k) = <<ix>> /\ ~Single(k)
  <2>1. ix.name = "removeBalanceLiquidity" /\ ix.acc = BothAccounts(k.owner)
    BY <1>6 DEF WithdrawInstruction, Single
  <2>. QED
    BY <1>4, <2>1
<1>7. CASE k.kind = "withdraw" /\ WithdrawInstruction(k) = <<ix>> /\ Single(k)
  <2> DEFINE own == [userDestinationToken |-> Ata(IF k.minB = 0 THEN TokenA ELSE TokenB, k.owner),
                     userPoolLp |-> Ata(Lp, k.owner), lpMint |-> Lp, user |-> k.owner]
             acc == own ++ WithTokenVaults
  <2>1. ix.name = "removeLiquiditySingleSide" /\ ix.acc = acc
    BY <1>7 DEF WithdrawInstruction, Single
  <2>2. DOMAIN own = {"userDestinationToken", "userPoolLp", "lpMint", "user"} /\ own.user = k.owner
    OBVIOUS
  <2> HIDE DEF own
  <2>3. /\ DOMAIN acc = DOMAIN own \cup PoolVaults \cup TokenVaults \cup Programs \cup {"pool"}
        /\ \A r \in DOMAIN own : acc[r] = own[r]
    BY <1>2
  <2> HIDE DEF acc
  <2>4. Idl["removeLiquiditySingleSide"] = RemoveLiquiditySingleSideIx /\ OfProgram(ix)
    BY <2>1 DEF Idl, OfProgram
  <2>. QED
    BY <1>1, <2>1, <2>2, <2>3, <2>4 DEF WellFormed, Signers, Roles, RemoveLiquiditySingleSideIx
<1>8. CASE k.kind \in {"claim", "claim2"} /\ ix = [name |-> "claimFee", acc |-> ClaimAccounts(k)]
  <2> DEFINE own == [lockEscrow |-> EscrowOf(k.owner), owner |-> k.owner, lpMint |-> Lp,
                     sourceTokens |-> Ata(Lp, k.owner), escrowVault |-> Ata(Lp, EscrowOf(k.owner)),
                     userAToken |-> Ata(TokenA, PaidTo(k, TokenA)),
                     userBToken |-> Ata(TokenB, PaidTo(k, TokenB))]
             acc == own ++ WithTokenVaults
  <2>1. ix.name = "claimFee" /\ ix.acc = acc
    BY <1>8 DEF ClaimAccounts
  <2>2. /\ DOMAIN own = {"lockEscrow", "owner", "lpMint", "sourceTokens", "escrowVault", "userAToken",
                         "userBToken"}
        /\ own.owner = k.owner
    OBVIOUS
  <2> HIDE DEF own
  <2>3. /\ DOMAIN acc = DOMAIN own \cup PoolVaults \cup TokenVaults \cup Programs \cup {"pool"}
        /\ \A r \in DOMAIN own : acc[r] = own[r]
    BY <1>2
  <2> HIDE DEF acc
  <2>4. Idl["claimFee"] = ClaimFeeIx /\ OfProgram(ix)
    BY <2>1 DEF Idl, OfProgram
  <2>. QED
    BY <1>1, <2>1, <2>2, <2>3, <2>4 DEF WellFormed, Signers, Roles, ClaimFeeIx
<1>9. CASE k.kind = "partner" /\
           ix = [name |-> "partnerClaimFee", a |-> Amount, b |-> Amount,
                 acc |-> [pool |-> Pool, aVaultLp |-> VaultLp(TokenA, Pool),
                          protocolTokenAFee |-> FeeAccount(TokenA),
                          protocolTokenBFee |-> FeeAccount(TokenB),
                          partnerTokenA |-> Ata(TokenA, k.owner),
                          partnerTokenB |-> Ata(TokenB, k.owner),
                          tokenProgram |-> "tokenProgram", partnerAuthority |-> k.owner]]
  <2>1. /\ ix.name = "partnerClaimFee" /\ ix.acc.partnerAuthority = k.owner
        /\ DOMAIN ix.acc = {"pool", "aVaultLp", "protocolTokenAFee", "protocolTokenBFee", "partnerTokenA",
                            "partnerTokenB", "tokenProgram", "partnerAuthority"}
    BY <1>9
  <2>2. Idl["partnerClaimFee"] = PartnerClaimFeeIx /\ OfProgram(ix)
    BY <2>1 DEF Idl, OfProgram
  <2>. QED
    BY <1>1, <2>1, <2>2 DEF WellFormed, Signers, Roles, PartnerClaimFeeIx
<1>. QED
  BY <1>3, <1>5, <1>6, <1>7, <1>8, <1>9 DEF IsMain

\* Instructions with all their accounts, signed by wallets in W
Signed(ixs, W) ==
    ixs \in Seq(ToSet(ixs)) /\ \A ix \in ToSet(ixs) : WellFormed(ix) /\ Signers(ix) \subseteq W

LEMMA SignedJoined ==
    ASSUME NEW W, NEW a, NEW b, Signed(a, W), Signed(b, W)
    PROVE  Signed(a \o b, W)
BY Joined DEF Signed

LEMMA SignedOne ==
    ASSUME NEW W, NEW ix, WellFormed(ix), Signers(ix) \subseteq W
    PROVE  Signed(<<ix>>, W)
BY One DEF Signed

LEMMA PreparesSigned ==
    ASSUME NEW W, NEW ixs, Prepares(ixs, W)
    PROVE  Signed(ixs, W)
<1>1. \A ix : Neutral(ix) => ~OfProgram(ix)
  BY DEF Neutral, OfProgram, Idl
<1>. QED
  BY <1>1 DEF Prepares, AllNeutral, Signed, WellFormed

LEMMA UnwrapSigned ==
    ASSUME NEW W, NEW o \in W, NEW r
    PROVE  Signed(UnwrapSOL(o, r), W)
<1> DEFINE ix == [name |-> "close", account |-> Ata(Native, o), receiver |-> r, signers |-> {o}]
<1>1. ix.name = "close" /\ ix.signers = {o}
  OBVIOUS
<1>2. UnwrapSOL(o, r) = <<ix>>
  BY DEF UnwrapSOL
<1> HIDE DEF ix
<1>3. ~OfProgram(ix)
  BY <1>1 DEF OfProgram, Idl
<1>. QED
  BY <1>1, <1>2, <1>3, SignedOne DEF WellFormed, Signers

\* Every transaction is the program's instruction between others that move no value,
\* and a claim may close a wrapped SOL account to the receiver in the end.
LEMMA TxParts ==
    ASSUME NEW k, Asked(k)
    PROVE  \E pre, main, post :
             /\ Tx(k) = (pre \o <<main>>) \o post
             /\ Prepares(pre, Parties(k)) /\ IsMain(k, main)
             /\ \/ Prepares(post, Parties(k))
                \/ k.kind \in {"claim", "claim2"} /\ post = UnwrapSOL(TempOf(k), k.other)
<1> DEFINE W == Parties(k)
<1>1. W = Parties(k)
  OBVIOUS
<1> HIDE DEF W
<1>2. CASE k.kind = "swap"
  BY <1>1, <1>2, SwapShape DEF Asked, Plain, IsMain
<1>3. CASE k.kind = "deposit"
  BY <1>1, <1>3, DepositShape DEF Asked, Plain, IsMain
<1>4. CASE k.kind = "withdraw"
  BY <1>1, <1>4, WithdrawShape DEF Asked, Plain, IsMain
<1>5. CASE k.kind = "partner"
  BY <1>1, <1>5, PartnerShape DEF Asked, Plain, IsMain
<1>6. CASE k.kind \in {"claim", "claim2"}
  <2>1. PICK pre, main, post :
          /\ Tx(k) = (pre \o <<main>>) \o post
          /\ Prepares(pre, W)
          /\ main = [name |-> "claimFee", acc |-> ClaimAccounts(k)]
          /\ post = IF IsNativePool THEN UnwrapSOL(TempOf(k), k.other) ELSE <<>>
    BY <1>1, <1>6, ClaimShape
  <2>2. IsMain(k, main)
    BY <1>6, <2>1 DEF IsMain
  <2>3. Prepares(post, W) \/ post = UnwrapSOL(TempOf(k), k.other)
    BY <2>1, NothingPrepares
  <2>. QED
    BY <1>1, <1>6, <2>1, <2>2, <2>3
<1>. QED
  BY <1>2, <1>3, <1>4, <1>5, <1>6 DEF Asked

LEMMA TxSigned ==
    ASSUME NEW k, Asked(k)
    PROVE  Signed(Tx(k), Parties(k))
<1> DEFINE W == Parties(k)
<1>1. PICK pre, main, post :
        /\ Tx(k) = (pre \o <<main>>) \o post
        /\ Prepares(pre, W) /\ IsMain(k, main)
        /\ \/ Prepares(post, W)
           \/ k.kind \in {"claim", "claim2"} /\ post = UnwrapSOL(TempOf(k), k.other)
  BY TxParts
<1>2. WellFormed(main) /\ Signers(main) \subseteq W
  BY <1>1, MainSigned
<1>3. k.kind \in {"claim", "claim2"} => TempOf(k) \in W
  BY DEF TempOf, Parties
<1> HIDE DEF W
<1>4. Signed(pre, W) /\ Signed(<<main>>, W)
  BY <1>1, <1>2, PreparesSigned, SignedOne
<1>5. Signed(post, W)
  BY <1>1, <1>3, PreparesSigned, UnwrapSigned
<1>. QED
  BY <1>1, <1>4, <1>5, SignedJoined DEF W

-----------------------------------------------------------------------------
(* What a transaction that lands does to the wallets                       *)

LEMMA DueInt ==
    ASSUME NEW k, Asked(k), NEW draw \in Draws
    PROVE  LET d == Done(k, draw)
           IN  Beneficiary(d) = Beneficiary(k) /\ d.kind = k.kind /\ \A m : Due(d, m) \in Int
<1> DEFINE d == Done(k, draw)
<1>1. d.draw = draw /\ d.kind = k.kind /\ d.owner = k.owner
  BY DoneFacts DEF Asked
<1>2. k.kind \in {"claim", "claim2"} => d.other = k.other
  BY DoneFacts DEF Asked
<1>3. Amount \in Int /\ draw[1] \in Int /\ draw[2] \in Int
  BY WalletConstants
<1>4. k.kind \in {"swap", "deposit", "withdraw", "claim", "claim2", "partner"}
  BY DEF Asked
<1> HIDE DEF d
<1>5. Beneficiary(d) = Beneficiary(k)
  BY <1>1, <1>2 DEF Beneficiary
<1>6. ASSUME NEW m PROVE Due(d, m) \in Int
  <2>1. CASE k.kind = "swap"
    BY <1>1, <1>3, <2>1 DEF Due
  <2>2. CASE k.kind = "deposit"
    BY <1>1, <1>3, <2>2 DEF Due
  <2>3. CASE k.kind = "withdraw"
    BY <1>1, <1>3, <2>3 DEF Due
  <2>4. CASE k.kind \in {"claim", "claim2"}
    BY <1>1, <1>3, <2>4 DEF Due
  <2>5. CASE k.kind = "partner"
    BY <1>1, <1>3, <2>5 DEF Due
  <2>. QED
    BY <1>4, <2>1, <2>2, <2>3, <2>4, <2>5
<1>. QED
  BY <1>1, <1>5, <1>6 DEF d

\* The list of an instruction with others before and after it
Around(ixs, pre, main, post) == ixs = (pre \o <<main>>) \o post

\* The instruction of the program, on what the ones before it led to.
LEMMA MainRun ==
    ASSUME NEW s, NEW draw, NEW pre, AllNeutral(pre), NEW main, NEW post,
           NEW ixs, Around(ixs, pre, main, post)
    PROVE  /\ post = <<>> => Run(s, ixs, draw) = Execute(Run(s, pre, draw), main)
           /\ \A ix : post = <<ix>> => Run(s, ixs, draw) = Execute(Execute(Run(s, pre, draw), main), ix)
<1> DEFINE q == pre \o <<main>>
<1>1. pre \in Seq(ToSet(pre))
  BY DEF AllNeutral
<1>2. q \in Seq(ToSet(q))
  BY <1>1, Joined, One
<1>3. Run(s, q, draw) = Execute(Run(s, pre, draw), main)
  BY <1>1, RunAppend
<1>4. ixs = q \o post
  BY DEF Around
<1> HIDE DEF q
<1>5. ASSUME post = <<>> PROVE ixs = q
  BY <1>2, <1>4, <1>5
<1>6. ASSUME NEW ix, post = <<ix>> PROVE Run(s, ixs, draw) = Execute(Run(s, q, draw), ix)
  <2> DEFINE I == ToSet(q)
  <2>1. q \in Seq(I)
    BY <1>2
  <2> HIDE DEF I
  <2>2. Run(s, q \o <<ix>>, draw) = Execute(Run(s, q, draw), ix)
    BY <2>1, RunAppend
  <2>. QED
    BY <1>4, <1>6, <2>2
<1>. QED
  BY <1>3, <1>5, <1>6

\* An instruction of the program, or none, after the others.
LEMMA PlainRun ==
    ASSUME NEW s, {"bal", "made", "sol"} \subseteq DOMAIN s, NEW draw,
           NEW k, NEW pre, NEW main, NEW post, Plain(k, pre, main, post),
           NEW t0, t0 = Run(s, pre, draw), NEW t1, t1 = Execute(t0, main), NEW t,
           t = Run(s, Tx(k), draw)
    PROVE  /\ Fields(t0) /\ t0.draw = draw /\ t0.res \in {"ok"} \cup Reasons
           /\ t0.res = "ok" /\ Amounts(s) => Same(s, t0)
           /\ Leads(t0, t1) =>
                /\ Leads(t1, t)
                /\ t.res = "ok" /\ Amounts(t1) => Same(t1, t)
<1>1. AllNeutral(pre) /\ AllNeutral(post) /\ Around(Tx(k), pre, main, post)
  BY DEF Plain, Prepares, Around
<1>2. /\ Fields(t0) /\ t0.draw = draw /\ t0.res \in {"ok"} \cup Reasons
      /\ t0.res = "ok" /\ Amounts(s) => Same(s, t0)
  BY <1>1, RunNeutral
<1>3. ASSUME Leads(t0, t1)
      PROVE  Leads(t1, t) /\ (t.res = "ok" /\ Amounts(t1) => Same(t1, t))
  <2>1. Fields(t1)
    BY <1>3 DEF Leads
  <2>2. CASE post = <<>>
    <3>1. t = t1
      BY <1>1, <2>2, MainRun
    <3>. QED
      BY <2>1, <3>1 DEF Leads, Same
  <2>3. ASSUME NEW ix, post = <<ix>> PROVE Leads(t1, t) /\ (t.res = "ok" /\ Amounts(t1) => Same(t1, t))
    <3>1. t = Execute(t1, ix)
      BY <1>1, <2>3, MainRun
    <3>2. Neutral(ix)
      BY <1>1, <2>3, One DEF AllNeutral
    <3>. QED
      BY <2>1, <3>1, <3>2, NeutralLeads
  <2>. QED
    BY <2>2, <2>3 DEF Plain
<1>. QED
  BY <1>2, <1>3

\* What a call k that landed did: what is due went to its beneficiary, and
\* nothing to the temporary wallet.
Effect(s, t, k) ==
    /\ Amounts(t)
    /\ \A w \in Wallets, m \in Mints :
         Holding(t, w, m) = Holding(s, w, m) + (IF w = Beneficiary(k) THEN Due(k, m) ELSE 0)
    /\ IsNativePool => Balance(t, Ata(Native, Temp)) = 0
    /\ \A m \in {TokenA, TokenB} :
         Balance(t, FeeAccount(m)) = Balance(s, FeeAccount(m)) - (IF k.kind = "partner" THEN Amount ELSE 0)

LEMMA PlainEffect ==
    ASSUME NEW s, Amounts(s), IsNativePool => Balance(s, Ata(Native, Temp)) = 0,
           NEW k, Asked(k), NEW draw \in Draws, NEW d, d = Done(k, draw), Beneficiary(k) \in Users,
           NEW t0, Same(s, t0), NEW t1, Pays(t0, t1, Beneficiary(k), d), NEW t, Same(t1, t),
           \A m \in {TokenA, TokenB} : Balance(t1, FeeAccount(m)) =
             Balance(t0, FeeAccount(m)) - (IF k.kind = "partner" THEN Amount ELSE 0)
    PROVE  Effect(s, t, d)
<1> DEFINE o == Beneficiary(k)
<1>1. Beneficiary(d) = o /\ d.kind = k.kind /\ \A m : Due(d, m) \in Int
  BY DueInt
<1>2. Amounts(t0) /\ Amounts(t1) /\ Amounts(t)
  BY DEF Same, Pays
<1>3. /\ \A a : Balance(s, a) \in Int /\ Balance(t0, a) \in Int /\ Balance(t1, a) \in Int
      /\ \A w \in Wallets : t0.sol[w] \in Int /\ t1.sol = t0.sol
  BY <1>2, BalanceInt DEF Amounts, Pays
<1> HIDE DEF o
<1>4. ASSUME NEW w \in Wallets, NEW m \in Mints
      PROVE  Holding(t, w, m) = Holding(s, w, m) + (IF w = o THEN Due(d, m) ELSE 0)
  <2>1. Balance(t1, Ata(m, w)) = Balance(t0, Ata(m, w)) + (IF w = o THEN Due(d, m) ELSE 0)
    BY DEF Pays, o
  <2>2. Holding(t1, w, m) = Holding(t0, w, m) + (IF w = o THEN Due(d, m) ELSE 0)
    BY <1>1, <1>3, <2>1 DEF Holding
  <2>3. Holding(t, w, m) = Holding(t1, w, m) /\ Holding(t0, w, m) = Holding(s, w, m)
    BY DEF Same
  <2>. QED
    BY <2>2, <2>3
<1>5. ASSUME IsNativePool PROVE Balance(t, Ata(Native, Temp)) = 0
  <2>1. Native \in Mints /\ Temp \in Wallets /\ Temp # o
    BY <1>5, WalletConstants DEF IsNativePool, Mints, Wallets, o
  <2>2. Balance(t1, Ata(Native, Temp)) = Balance(t0, Ata(Native, Temp)) + 0
    BY <2>1 DEF Pays, o
  <2>. QED
    BY <1>3, <1>5, <2>2 DEF Same
<1>6. ASSUME NEW m \in {TokenA, TokenB}
      PROVE  Balance(t, FeeAccount(m)) =
               Balance(s, FeeAccount(m)) - (IF d.kind = "partner" THEN Amount ELSE 0)
  BY <1>1 DEF Same
<1>. QED
  BY <1>1, <1>2, <1>4, <1>5, <1>6 DEF Effect

\* The temporary wallet has nothing wrapped, and a partner finds its fees.
Funded(s) ==
    /\ Amounts(s)
    /\ IsNativePool => Balance(s, Ata(Native, Temp)) = 0
    /\ \A m \in {TokenA, TokenB} : Balance(s, FeeAccount(m)) >= Amount

FeesAfter(s, t, k) ==
    \A m \in {TokenA, TokenB} :
      Balance(t, FeeAccount(m)) = Balance(s, FeeAccount(m)) - (IF k.kind = "partner" THEN Amount ELSE 0)

LEMMA FeesStayAfter ==
    ASSUME NEW s, NEW t, NEW k, k.kind # "partner", Amounts(s), FeesStay(s, t)
    PROVE  FeesAfter(s, t, k)
<1>1. \A a : Balance(s, a) \in Int
  BY BalanceInt
<1>. QED
  BY <1>1 DEF FeesAfter, FeesStay

LEMMA PlainLands ==
    ASSUME NEW s, {"bal", "made", "sol"} \subseteq DOMAIN s, NEW draw \in Draws,
           NEW k, Asked(k), Beneficiary(k) \in Users,
           NEW pre, NEW main, NEW post, Plain(k, pre, main, post),
           NEW t0, t0 = Run(s, pre, draw), NEW t1, t1 = Execute(t0, main), Leads(t0, t1), NEW t,
           t = Run(s, Tx(k), draw),
           t1.res = "ok" /\ Funded(t0) =>
             Pays(t0, t1, Beneficiary(k), Done(k, draw)) /\ FeesAfter(t0, t1, k)
    PROVE  /\ t.res \in {"ok"} \cup Reasons
           /\ t.res = "ok" => t1.res = "ok" /\ (Funded(s) => Effect(s, t, Done(k, draw)))
<1>1. /\ Fields(t0) /\ t0.draw = draw /\ t0.res \in {"ok"} \cup Reasons
      /\ t0.res = "ok" /\ Amounts(s) => Same(s, t0)
      /\ Leads(t1, t)
      /\ t.res = "ok" /\ Amounts(t1) => Same(t1, t)
  BY PlainRun
<1>2. /\ t.res \in {"ok"} \cup Reasons
      /\ t.res = "ok" => t1.res = "ok" /\ t0.res = "ok"
  BY <1>1 DEF Leads
<1>3. ASSUME t.res = "ok", Funded(s) PROVE Effect(s, t, Done(k, draw))
  <2> DEFINE d == Done(k, draw)
  <2>1. Amounts(s) /\ (IsNativePool => Balance(s, Ata(Native, Temp)) = 0)
    BY <1>3 DEF Funded
  <2>2. Same(s, t0)
    BY <1>1, <1>2, <1>3, <2>1
  <2>3. Funded(t0)
    BY <1>3, <2>2 DEF Same, Funded
  <2> HIDE DEF d
  <2>4. Pays(t0, t1, Beneficiary(k), d) /\ FeesAfter(t0, t1, k)
    BY <1>2, <1>3, <2>3 DEF d
  <2>5. Same(t1, t)
    BY <1>1, <1>3, <2>4 DEF Pays
  <2>6. d = Done(k, draw)
    BY DEF d
  <2>7. \A m \in {TokenA, TokenB} : Balance(t1, FeeAccount(m)) =
          Balance(t0, FeeAccount(m)) - (IF k.kind = "partner" THEN Amount ELSE 0)
    BY <2>4 DEF FeesAfter
  <2>8. Effect(s, t, d)
    BY <2>1, <2>2, <2>4, <2>5, <2>6, <2>7, PlainEffect
  <2>. QED
    BY <2>8 DEF d
<1>. QED
  BY <1>2, <1>3

\* The minimums that a call sets
MinsMet(k, draw) ==
    /\ k.kind = "swap" => draw[1] >= k.min
    /\ k.kind = "withdraw" /\ ~Single(k) => draw[1] >= k.minA /\ draw[2] >= k.minB

\* How the transaction of a call ends: it fails, or it does what it was asked to.
Ends(s, t, k, draw) ==
    /\ t.res \in {"ok"} \cup Reasons
    /\ t.res = "ok" =>
         /\ MinsMet(k, draw)
         /\ Funded(s) /\ (k.kind = "claim2" => k.other = k.owner) => Effect(s, t, Done(k, draw))

LEMMA SwapLands ==
    ASSUME pool \in Pools, NEW s, {"bal", "made", "sol"} \subseteq DOMAIN s, NEW draw \in Draws,
           NEW k, Asked(k), k.kind = "swap", NEW t, t = Run(s, Tx(k), draw)
    PROVE  Ends(s, t, k, draw)
<1>1. PICK pre, main, post : Plain(k, pre, main, post) /\ SwapInstruction(k) = <<main>>
  BY SwapShape
<1> DEFINE t0 == Run(s, pre, draw)
           t1 == Execute(t0, main)
<1>2. t0 = Run(s, pre, draw) /\ t1 = Execute(t0, main)
  OBVIOUS
<1>3. Fields(t0) /\ t0.draw = draw
  BY <1>1, PlainRun
<1> HIDE DEF t0
<1>4. /\ Leads(t0, t1)
      /\ t1.res = "ok" => draw[1] >= k.min
      /\ t1.res = "ok" /\ Amounts(t0) => Pays(t0, t1, k.owner, Done(k, draw)) /\ FeesStay(t0, t1)
  BY <1>1, <1>3, SwapPays DEF Asked
<1> HIDE DEF t1
<1>5. Beneficiary(k) = k.owner /\ k.owner \in Users
  BY DEF Beneficiary, Asked
<1>6. t1.res = "ok" /\ Funded(t0) =>
        Pays(t0, t1, Beneficiary(k), Done(k, draw)) /\ FeesAfter(t0, t1, k)
  BY <1>4, <1>5, FeesStayAfter DEF Funded
<1>7. /\ t.res \in {"ok"} \cup Reasons
      /\ t.res = "ok" => t1.res = "ok" /\ (Funded(s) => Effect(s, t, Done(k, draw)))
  BY <1>1, <1>2, <1>4, <1>5, <1>6, PlainLands
<1>. QED
  BY <1>4, <1>7 DEF MinsMet, Ends

LEMMA DepositLands ==
    ASSUME pool \in Pools, NEW s, {"bal", "made", "sol"} \subseteq DOMAIN s, NEW draw \in Draws,
           NEW k, Asked(k), k.kind = "deposit", NEW t, t = Run(s, Tx(k), draw)
    PROVE  Ends(s, t, k, draw)
<1>1. PICK pre, main, post :
        /\ Plain(k, pre, main, post)
        /\ main = [name |-> DepositMethod, a |-> Amount, b |-> Amount, lp |-> Amount,
                   acc |-> BothAccounts(k.owner)]
  BY DepositShape
<1> DEFINE t0 == Run(s, pre, draw)
           t1 == Execute(t0, main)
<1>2. t0 = Run(s, pre, draw) /\ t1 = Execute(t0, main)
  OBVIOUS
<1>3. Fields(t0) /\ t0.draw = draw
  BY <1>1, PlainRun
<1> HIDE DEF t0
<1>4. /\ Leads(t0, t1)
      /\ t1.res = "ok" /\ Amounts(t0) => Pays(t0, t1, k.owner, Done(k, draw)) /\ FeesStay(t0, t1)
  BY <1>1, <1>3, DepositPays DEF Asked
<1> HIDE DEF t1
<1>5. Beneficiary(k) = k.owner /\ k.owner \in Users
  BY DEF Beneficiary, Asked
<1>6. t1.res = "ok" /\ Funded(t0) =>
        Pays(t0, t1, Beneficiary(k), Done(k, draw)) /\ FeesAfter(t0, t1, k)
  BY <1>4, <1>5, FeesStayAfter DEF Funded
<1>7. /\ t.res \in {"ok"} \cup Reasons
      /\ t.res = "ok" => t1.res = "ok" /\ (Funded(s) => Effect(s, t, Done(k, draw)))
  BY <1>1, <1>2, <1>4, <1>5, <1>6, PlainLands
<1>. QED
  BY <1>7 DEF MinsMet, Ends

LEMMA WithdrawLands ==
    ASSUME pool \in Pools, NEW s, {"bal", "made", "sol"} \subseteq DOMAIN s, NEW draw \in Draws,
           NEW k, Asked(k), k.kind = "withdraw", NEW t, t = Run(s, Tx(k), draw)
    PROVE  Ends(s, t, k, draw)
<1>1. PICK pre, main, post : Plain(k, pre, main, post) /\ WithdrawInstruction(k) = <<main>>
  BY WithdrawShape
<1> DEFINE t0 == Run(s, pre, draw)
           t1 == Execute(t0, main)
<1>2. t0 = Run(s, pre, draw) /\ t1 = Execute(t0, main)
  OBVIOUS
<1>3. Fields(t0) /\ t0.draw = draw
  BY <1>1, PlainRun
<1> HIDE DEF t0
<1>4. /\ Leads(t0, t1)
      /\ t1.res = "ok" /\ ~Single(k) => draw[1] >= k.minA /\ draw[2] >= k.minB
      /\ t1.res = "ok" /\ Amounts(t0) => Pays(t0, t1, k.owner, Done(k, draw)) /\ FeesStay(t0, t1)
  <2>1. CASE Single(k)
    <3> DEFINE n == IF k.minB = 0 THEN TokenA ELSE TokenB
               acc == [userDestinationToken |-> Ata(n, k.owner), userPoolLp |-> Ata(Lp, k.owner),
                       lpMint |-> Lp, user |-> k.owner] ++ WithTokenVaults
    <3>1. main = [name |-> "removeLiquiditySingleSide", lp |-> Amount, min |-> 0, acc |-> acc]
      BY <1>1, <2>1 DEF WithdrawInstruction, Single
    <3>. QED
      BY <1>3, <2>1, <3>1, SinglePays DEF Asked
  <2>2. CASE ~Single(k)
    <3>1. main = [name |-> "removeBalanceLiquidity", lp |-> Amount, minA |-> k.minA, minB |-> k.minB,
                  acc |-> BothAccounts(k.owner)]
      BY <1>1, <2>2 DEF WithdrawInstruction, Single
    <3>. QED
      BY <1>3, <2>2, <3>1, BalancedPays DEF Asked
  <2>. QED
    BY <2>1, <2>2
<1> HIDE DEF t1
<1>5. Beneficiary(k) = k.owner /\ k.owner \in Users
  BY DEF Beneficiary, Asked
<1>6. t1.res = "ok" /\ Funded(t0) =>
        Pays(t0, t1, Beneficiary(k), Done(k, draw)) /\ FeesAfter(t0, t1, k)
  BY <1>4, <1>5, FeesStayAfter DEF Funded
<1>7. /\ t.res \in {"ok"} \cup Reasons
      /\ t.res = "ok" => t1.res = "ok" /\ (Funded(s) => Effect(s, t, Done(k, draw)))
  BY <1>1, <1>2, <1>4, <1>5, <1>6, PlainLands
<1>. QED
  BY <1>4, <1>7 DEF MinsMet, Ends

LEMMA PartnerLands ==
    ASSUME pool \in Pools, NEW s, {"bal", "made", "sol"} \subseteq DOMAIN s, NEW draw \in Draws,
           NEW k, Asked(k), k.kind = "partner", NEW t, t = Run(s, Tx(k), draw)
    PROVE  Ends(s, t, k, draw)
<1>1. PICK pre, main, post :
        /\ Plain(k, pre, main, post)
        /\ main = [name |-> "partnerClaimFee", a |-> Amount, b |-> Amount,
                   acc |-> [pool |-> Pool, aVaultLp |-> VaultLp(TokenA, Pool),
                            protocolTokenAFee |-> FeeAccount(TokenA),
                            protocolTokenBFee |-> FeeAccount(TokenB),
                            partnerTokenA |-> Ata(TokenA, k.owner),
                            partnerTokenB |-> Ata(TokenB, k.owner),
                            tokenProgram |-> "tokenProgram", partnerAuthority |-> k.owner]]
  BY PartnerShape
<1> DEFINE t0 == Run(s, pre, draw)
           t1 == Execute(t0, main)
<1>2. t0 = Run(s, pre, draw) /\ t1 = Execute(t0, main)
  OBVIOUS
<1>3. Fields(t0) /\ t0.draw = draw
  BY <1>1, PlainRun
<1> HIDE DEF t0
<1>4. /\ Leads(t0, t1)
      /\ t1.res = "ok" /\ Amounts(t0) /\ (\A m \in {TokenA, TokenB} : Balance(t0, FeeAccount(m)) >= Amount) =>
           /\ Pays(t0, t1, k.owner, Done(k, draw))
           /\ \A m \in {TokenA, TokenB} : Balance(t1, FeeAccount(m)) = Balance(t0, FeeAccount(m)) - Amount
  BY <1>1, <1>3, PartnerPays DEF Asked
<1> HIDE DEF t1
<1>5. Beneficiary(k) = k.owner /\ k.owner \in Users
  BY DEF Beneficiary, Asked
<1>6. t1.res = "ok" /\ Funded(t0) =>
        Pays(t0, t1, Beneficiary(k), Done(k, draw)) /\ FeesAfter(t0, t1, k)
  BY <1>4, <1>5 DEF Funded, FeesAfter
<1>7. /\ t.res \in {"ok"} \cup Reasons
      /\ t.res = "ok" => t1.res = "ok" /\ (Funded(s) => Effect(s, t, Done(k, draw)))
  BY <1>1, <1>2, <1>4, <1>5, <1>6, PlainLands
<1>. QED
  BY <1>7 DEF MinsMet, Ends

\* Besides what is due, the wallet v passes x of its wrapped SOL on to the
\* beneficiary.
Passes(s, t, k, v, x) ==
    /\ Amounts(t)
    /\ \A w \in Wallets, m \in Mints :
         Holding(t, w, m) = Holding(s, w, m)
           + (IF w = Beneficiary(k) THEN Due(k, m) + (IF m = Native THEN x ELSE 0) ELSE 0)
           - (IF w = v /\ m = Native THEN x ELSE 0)
    /\ IsNativePool => Balance(t, Ata(Native, Temp)) = 0
    /\ \A m \in {TokenA, TokenB} :
         Balance(t, FeeAccount(m)) = Balance(s, FeeAccount(m)) - (IF k.kind = "partner" THEN Amount ELSE 0)

Passing(s, t, k) == \E v \in Wallets, x \in Int : Passes(s, t, k, v, x)

LEMMA EffectPasses ==
    ASSUME NEW s, Amounts(s), NEW t, NEW k, \A m : Due(k, m) \in Int
    PROVE  /\ Effect(s, t, k) => Passing(s, t, k)
           /\ \A v : Passes(s, t, k, v, 0) => Effect(s, t, k)
<1>1. \A w \in Wallets, m \in Mints : Holding(s, w, m) \in Int
  BY BalanceInt
<1>2. ASSUME NEW v, NEW w \in Wallets, NEW m \in Mints
      PROVE  Holding(s, w, m)
               + (IF w = Beneficiary(k) THEN Due(k, m) + (IF m = Native THEN 0 ELSE 0) ELSE 0)
               - (IF w = v /\ m = Native THEN 0 ELSE 0)
               = Holding(s, w, m) + (IF w = Beneficiary(k) THEN Due(k, m) ELSE 0)
  BY <1>1
<1>3. \A v : Passes(s, t, k, v, 0) <=> Effect(s, t, k)
  BY <1>2 DEF Passes, Effect
<1>4. Temp \in Wallets /\ 0 \in Int
  BY DEF Wallets
<1>. QED
  BY <1>3, <1>4 DEF Passing

\* A claim pays SOL to the wrapped SOL account of another wallet than the receiver's,
\* and closes it to the receiver.
LEMMA CloseEffect ==
    ASSUME pool \in Pools, NEW s, Funded(s), IsNativePool,
           NEW k, Asked(k), k.kind \in {"claim", "claim2"}, k.other # k.owner,
           NEW draw \in Draws, NEW d, d = Done(k, draw),
           NEW t0, Same(s, t0), NEW t1, Fields(t1), t1.res = "ok",
           PaysTo(t0, t1, PaidTo(k, TokenA), PaidTo(k, TokenB), d), FeesStay(t0, t1),
           NEW t, t = Close(t1, Ata(Native, TempOf(k)), k.other), t.res = "ok"
    PROVE  /\ Passing(s, t, d)
           /\ k.kind = "claim" => Effect(s, t, d)
<1> DEFINE o == k.other
           v == TempOf(k)
           g == Ata(Native, v)
           x == Balance(t0, g)
<1>1. Beneficiary(d) = o /\ d.kind # "partner" /\ \A m : Due(d, m) \in Int
  BY DueInt DEF Beneficiary
<1>2. Amounts(s) /\ Amounts(t0) /\ Amounts(t1) /\ t1.sol = t0.sol
  BY DEF Same, PaysTo, Funded
<1>3. /\ \A a : Balance(s, a) \in Int /\ Balance(t0, a) \in Int /\ Balance(t1, a) \in Int
      /\ \A w \in Wallets : t0.sol[w] \in Int /\ t1.sol[w] = t0.sol[w]
  BY <1>2, BalanceInt DEF Amounts
<1>4. o \in Users /\ o \in Wallets /\ v \in Wallets /\ o # v /\ Temp \in Wallets /\ o # Temp
  BY WalletConstants DEF Asked, Wallets, TempOf
<1>5. \A m : PaidTo(k, m) = IF m = Native THEN v ELSE o
  BY DEF PaidTo
<1> HIDE DEF v
<1>6. /\ Amounts(t) /\ \A u \in Wallets : t.sol[u] = t1.sol[u] + (IF u = o THEN Balance(t1, g) ELSE 0)
      /\ \A a : Balance(t, a) = IF a = g THEN 0 ELSE Balance(t1, a)
  BY <1>2, <1>4, CloseLeads DEF v
<1>7. Native \in Mints /\ Native \in {TokenA, TokenB}
  BY DEF IsNativePool, Mints
<1>8. ASSUME NEW w \in Wallets, NEW m \in {TokenA, TokenB}
      PROVE  Balance(t1, Ata(m, w)) =
               Balance(t0, Ata(m, w)) + (IF w = (IF m = Native THEN v ELSE o) THEN Due(d, m) ELSE 0)
  <2>1. m \in Mints /\ (m = TokenA \/ m = TokenB)
    BY <1>8 DEF Mints
  <2>2. Balance(t1, Ata(m, w)) = Balance(t0, Ata(m, w)) +
          (IF w = (IF m = TokenA THEN PaidTo(k, TokenA) ELSE PaidTo(k, TokenB)) THEN Due(d, m) ELSE 0)
    BY <2>1 DEF PaysTo
  <2>. QED
    BY <1>5, <2>1, <2>2
<1>9. ASSUME NEW w \in Wallets
      PROVE  Balance(t1, Ata(Lp, w)) = Balance(t0, Ata(Lp, w)) /\ Due(d, Lp) = 0
  <2>1. Due(d, Lp) = 0
    <3>1. d.kind \in {"claim", "claim2"}
      BY DueInt
    <3>. QED
      BY <3>1, PoolTokens DEF Due
  <2>2. Lp \in Mints
    BY DEF Mints
  <2>3. Balance(t1, Ata(Lp, w)) = Balance(t0, Ata(Lp, w)) +
          (IF w = (IF Lp = TokenA THEN PaidTo(k, TokenA) ELSE PaidTo(k, TokenB)) THEN Due(d, Lp) ELSE 0)
    BY <2>2 DEF PaysTo
  <2>. QED
    BY <1>3, <2>1, <2>3
<1>10. Balance(t1, g) = x + Due(d, Native) /\ x \in Int
  BY <1>1, <1>3, <1>4, <1>7, <1>8
<1> HIDE DEF o, g, x
<1>11. ASSUME NEW w \in Wallets, NEW m \in Mints
       PROVE  Holding(t, w, m) = Holding(s, w, m)
                + (IF w = o THEN Due(d, m) + (IF m = Native THEN x ELSE 0) ELSE 0)
                - (IF w = v /\ m = Native THEN x ELSE 0)
  <2>1. Holding(s, w, m) = Holding(t0, w, m)
    BY DEF Same
  <2>2. CASE m = Lp
    <3>1. Lp # Native
      BY <1>7, PoolTokens
    <3>2. Ata(Lp, w) # g
      BY <3>1, Addresses DEF g
    <3>3. Balance(t, Ata(m, w)) = Balance(t0, Ata(m, w)) /\ Due(d, m) = 0
      BY <1>6, <1>9, <2>2, <3>2
    <3>. QED
      BY <1>3, <2>1, <2>2, <3>1, <3>3 DEF Holding
  <2>3. CASE m \in {TokenA, TokenB} /\ m # Native
    <3>1. Ata(m, w) # g
      BY <2>3, Addresses DEF g
    <3>2. Balance(t, Ata(m, w)) = Balance(t0, Ata(m, w)) + (IF w = o THEN Due(d, m) ELSE 0)
      BY <1>6, <1>8, <2>3, <3>1
    <3>. QED
      BY <1>1, <1>3, <2>1, <2>3, <3>2 DEF Holding
  <2>4. CASE m = Native /\ w = v
    <3>1. Balance(t, Ata(m, w)) = 0
      BY <1>6, <2>4 DEF g
    <3>2. Balance(t0, Ata(m, w)) = x
      BY <2>4 DEF g, x
    <3>3. t.sol[w] = t0.sol[w]
      BY <1>3, <1>4, <1>6, <2>4
    <3>. QED
      BY <1>3, <1>4, <1>10, <2>1, <2>4, <3>1, <3>2, <3>3 DEF Holding
  <2>5. CASE m = Native /\ w # v
    <3>1. Ata(m, w) # g
      BY <2>5, Addresses DEF g
    <3>2. Balance(t, Ata(m, w)) = Balance(t0, Ata(m, w))
      BY <1>3, <1>6, <1>7, <1>8, <2>5, <3>1
    <3>3. t.sol[w] = t0.sol[w] + (IF w = o THEN Due(d, m) + x ELSE 0)
      BY <1>1, <1>3, <1>6, <1>10, <2>5
    <3>. QED
      BY <1>1, <1>3, <1>10, <2>1, <2>5, <3>2, <3>3 DEF Holding
  <2>. QED
    BY <2>2, <2>3, <2>4, <2>5 DEF Mints
<1>12. Balance(s, Ata(Native, Temp)) = 0 /\ Balance(t0, Ata(Native, Temp)) = 0
  BY DEF Same, Funded
<1>13. Balance(t, Ata(Native, Temp)) = 0
  <2>1. CASE v = Temp
    BY <1>6, <2>1 DEF g
  <2>2. CASE v # Temp
    <3>1. Ata(Native, Temp) # g
      BY <2>2, Addresses DEF g
    <3>2. Balance(t1, Ata(Native, Temp)) = Balance(t0, Ata(Native, Temp)) + 0
      BY <1>4, <1>7, <1>8, <2>2
    <3>. QED
      BY <1>6, <1>12, <3>1, <3>2
  <2>. QED
    BY <2>1, <2>2
<1>14. ASSUME NEW m \in {TokenA, TokenB}
       PROVE  Balance(t, FeeAccount(m)) = Balance(s, FeeAccount(m)) - 0
  <2>1. FeeAccount(m) # g
    BY Addresses DEF g
  <2>2. Balance(t, FeeAccount(m)) = Balance(s, FeeAccount(m))
    BY <1>6, <2>1 DEF Same, FeesStay
  <2>. QED
    BY <1>3, <2>2
<1>15. Passes(s, t, d, v, x)
  BY <1>1, <1>6, <1>11, <1>13, <1>14 DEF Passes
<1>16. Passing(s, t, d)
  BY <1>4, <1>10, <1>15 DEF Passing
<1>17. ASSUME k.kind = "claim" PROVE Effect(s, t, d)
  <2>1. x = 0
    BY <1>12, <1>17 DEF x, g, v, TempOf
  <2>. QED
    BY <1>1, <1>2, <1>15, <2>1, EffectPasses
<1>. QED
  BY <1>16, <1>17

LEMMA ClaimLands ==
    ASSUME pool \in Pools, NEW s, {"bal", "made", "sol"} \subseteq DOMAIN s, NEW draw \in Draws,
           NEW k, Asked(k), k.kind \in {"claim", "claim2"}, NEW t, t = Run(s, Tx(k), draw)
    PROVE  /\ Ends(s, t, k, draw)
           /\ t.res = "ok" /\ Funded(s) => Passing(s, t, Done(k, draw))
<1>1. PICK pre, main, post :
        /\ Tx(k) = (pre \o <<main>>) \o post
        /\ Prepares(pre, Parties(k))
        /\ main = [name |-> "claimFee", acc |-> ClaimAccounts(k)]
        /\ post = IF IsNativePool THEN UnwrapSOL(TempOf(k), k.other) ELSE <<>>
  BY ClaimShape
<1> DEFINE t0 == Run(s, pre, draw)
           t1 == Execute(t0, main)
           d == Done(k, draw)
           a == PaidTo(k, TokenA)
           b == PaidTo(k, TokenB)
<1>2. t0 = Run(s, pre, draw) /\ t1 = Execute(t0, main)
  OBVIOUS
<1>3. Around(Tx(k), pre, main, post) /\ AllNeutral(pre)
  BY <1>1 DEF Around, Prepares
<1>4. /\ Fields(t0) /\ t0.draw = draw /\ t0.res \in {"ok"} \cup Reasons
      /\ t0.res = "ok" /\ Amounts(s) => Same(s, t0)
  BY <1>3, RunNeutral
<1> HIDE DEF t0
<1>5. /\ Leads(t0, t1)
      /\ t1.res = "ok" /\ Amounts(t0) => PaysTo(t0, t1, a, b, d) /\ FeesStay(t0, t1)
  <2> DEFINE acc == ClaimAccounts(k)
             e == EscrowOf(k.owner)
             own == k.owner
  <2>1. acc = [lockEscrow |-> e, owner |-> own, lpMint |-> Lp,
               sourceTokens |-> Ata(Lp, own), escrowVault |-> Ata(Lp, e),
               userAToken |-> Ata(TokenA, a), userBToken |-> Ata(TokenB, b)] ++ WithTokenVaults
    BY DEF ClaimAccounts
  <2>2. main = [name |-> "claimFee", acc |-> acc]
    BY <1>1
  <2> HIDE DEF acc, e, own, a, b
  <2>3. "kind" \in DOMAIN k
    BY DEF Asked
  <2>. QED
    BY <1>4, <2>1, <2>2, <2>3, ClaimPays
<1>6. k.other \in Users /\ k.owner \in Users /\ Beneficiary(k) = k.other
  BY DEF Asked, Beneficiary
<1>7. MinsMet(k, draw)
  BY DEF MinsMet
<1>8. CASE IsNativePool /\ k.other # k.owner
  <2> DEFINE g == Ata(Native, TempOf(k))
             ix == [name |-> "close", account |-> g, receiver |-> k.other, signers |-> {TempOf(k)}]
  <2>1. post = <<ix>>
    BY <1>1, <1>8 DEF UnwrapSOL
  <2>2. ix.name = "close" /\ ix.account = g /\ ix.receiver = k.other
    OBVIOUS
  <2> HIDE DEF ix, t1
  <2>3. t = Execute(t1, ix)
    BY <1>2, <1>3, <2>1, MainRun
  <2>4. ~OfProgram(ix)
    BY <2>2 DEF OfProgram, Idl
  <2>5. t = IF t1.res # "ok" THEN t1 ELSE Close(t1, g, k.other)
    BY <2>2, <2>3, <2>4 DEF Execute
  <2>6. Fields(t1)
    BY <1>5 DEF Leads
  <2>7. Leads(t1, t)
    <3>1. Leads(t1, Close(t1, g, k.other))
      <4> HIDE DEF g
      <4>. QED
        BY <2>6, CloseLeads
    <3>2. Leads(t1, t1)
      BY <2>6 DEF Leads
    <3>. QED
      BY <2>5, <3>1, <3>2
  <2>8. /\ t.res \in {"ok"} \cup Reasons
        /\ t.res = "ok" => t1.res = "ok" /\ t0.res = "ok"
    BY <1>4, <1>5, <2>7 DEF Leads
  <2> HIDE DEF d, a, b
  <2>9. d = Done(k, draw) /\ a = PaidTo(k, TokenA) /\ b = PaidTo(k, TokenB)
    BY DEF d, a, b
  <2>10. ASSUME t.res = "ok", Funded(s)
         PROVE  Passing(s, t, d) /\ (k.kind = "claim" => Effect(s, t, d))
    <3>1. t0.res = "ok" /\ t1.res = "ok" /\ t = Close(t1, Ata(Native, TempOf(k)), k.other)
      BY <2>5, <2>8, <2>10
    <3>2. Same(s, t0)
      BY <1>4, <2>10, <3>1 DEF Funded
    <3>3. PaysTo(t0, t1, PaidTo(k, TokenA), PaidTo(k, TokenB), d) /\ FeesStay(t0, t1)
      BY <1>5, <2>9, <3>1, <3>2 DEF Same
    <3>. QED
      BY <1>8, <2>6, <2>9, <2>10, <3>1, <3>2, <3>3, CloseEffect
  <2>11. Ends(s, t, k, draw)
    BY <1>7, <1>8, <2>8, <2>10 DEF d, Ends
  <2>. QED
    BY <2>10, <2>11 DEF d
<1>9. CASE ~IsNativePool \/ k.other = k.owner
  <2>1. a = k.other /\ b = k.other
    BY <1>9 DEF PaidTo, TempOf, IsNativePool
  <2>2. post = IF IsNativePool THEN UnwrapSOL(k.owner, k.owner) ELSE <<>>
    BY <1>1, <1>9 DEF TempOf
  <2>3. Prepares(post, Parties(k)) /\ (post = <<>> \/ \E ix : post = <<ix>>)
    BY <1>6, <2>2, OwnUnwrap
  <2>4. Plain(k, pre, main, post)
    BY <1>1, <2>3 DEF Plain
  <2> HIDE DEF d, t1, a, b
  <2>5. PaysTo(t0, t1, a, b, d) => Pays(t0, t1, k.other, d)
    BY <2>1 DEF PaysTo, Pays
  <2>6. t1.res = "ok" /\ Funded(t0) => Pays(t0, t1, Beneficiary(k), d) /\ FeesAfter(t0, t1, k)
    BY <1>5, <1>6, <2>5, FeesStayAfter DEF Funded
  <2>7. /\ t.res \in {"ok"} \cup Reasons
        /\ t.res = "ok" => t1.res = "ok" /\ (Funded(s) => Effect(s, t, d))
    BY <1>2, <1>5, <1>6, <2>4, <2>6, PlainLands DEF d
  <2>8. Ends(s, t, k, draw)
    BY <1>7, <2>7 DEF d, Ends
  <2>9. \A m : Due(d, m) \in Int
    BY DueInt DEF d
  <2>10. t.res = "ok" /\ Funded(s) => Passing(s, t, d)
    BY <2>7, <2>9, EffectPasses DEF Funded
  <2>. QED
    BY <2>8, <2>10 DEF d
<1>. QED
  BY <1>8, <1>9

\* What a transaction that lands has done.
LEMMA TxEnds ==
    ASSUME pool \in Pools, NEW s, {"bal", "made", "sol"} \subseteq DOMAIN s, NEW draw \in Draws,
           NEW k, Asked(k), NEW t, t = Run(s, Tx(k), draw)
    PROVE  /\ Ends(s, t, k, draw)
           /\ t.res = "ok" /\ Funded(s) => Passing(s, t, Done(k, draw))
<1>1. k.kind \in {"swap", "deposit", "withdraw", "claim", "claim2", "partner"}
  BY DEF Asked
<1>2. CASE k.kind \in {"claim", "claim2"}
  BY <1>2, ClaimLands
<1>3. CASE k.kind \notin {"claim", "claim2"}
  <2>1. Ends(s, t, k, draw)
    BY <1>1, <1>3, SwapLands, DepositLands, WithdrawLands, PartnerLands
  <2>2. \A m : Due(Done(k, draw), m) \in Int
    BY DueInt
  <2>3. t.res = "ok" /\ Funded(s) => Effect(s, t, Done(k, draw))
    BY <1>3, <2>1 DEF Ends
  <2> DEFINE d == Done(k, draw)
  <2> HIDE DEF d
  <2>4. t.res = "ok" /\ Funded(s) => Passing(s, t, d)
    BY <2>2, <2>3, EffectPasses DEF Funded, d
  <2>. QED
    BY <2>1, <2>4 DEF d
<1>. QED
  BY <1>2, <1>3

-----------------------------------------------------------------------------
(* Sums over the calls                                                     *)

LEMMA TotalDefined ==
    ASSUME NEW f
    PROVE  \A n \in Nat : \E g : g = [i \in 0..n |-> IF i = 0 THEN 0 ELSE g[i - 1] + f[i]]
<1> DEFINE P(n) == \E g : g = [i \in 0..n |-> IF i = 0 THEN 0 ELSE g[i - 1] + f[i]]
           S == {n \in Nat : P(n)}
<1>1. 0 \in S
  <2> DEFINE g == [i \in 0..0 |-> 0]
  <2>1. g = [i \in 0..0 |-> IF i = 0 THEN 0 ELSE g[i - 1] + f[i]]
    OBVIOUS
  <2>. QED
    BY <2>1
<1>2. ASSUME NEW n \in Nat, n \in S PROVE n + 1 \in S
  <2>1. PICK g : g = [i \in 0..n |-> IF i = 0 THEN 0 ELSE g[i - 1] + f[i]]
    BY <1>2
  <2> DEFINE h == [i \in 0..(n + 1) |-> IF i = n + 1 THEN g[n] + f[n + 1] ELSE g[i]]
  <2>2. ASSUME NEW i \in 0..(n + 1)
        PROVE  h[i] = IF i = 0 THEN 0 ELSE h[i - 1] + f[i]
    <3>1. CASE i = 0
      BY <2>1, <3>1
    <3>2. CASE i = n + 1
      <4>1. h[i] = g[n] + f[n + 1] /\ i - 1 = n /\ i # 0 /\ n \in 0..(n + 1) /\ n # n + 1
        BY <3>2
      <4>2. h[n] = g[n]
        BY <4>1
      <4>. QED
        BY <3>2, <4>1, <4>2
    <3>3. CASE i # 0 /\ i # n + 1
      <4>1. i \in 0..n /\ i - 1 \in 0..n /\ i - 1 \in 0..(n + 1) /\ i - 1 # n + 1
        BY <3>3
      <4>2. h[i] = g[i] /\ h[i - 1] = g[i - 1]
        BY <3>3, <4>1
      <4>3. g[i] = g[i - 1] + f[i]
        BY <2>1, <3>3, <4>1
      <4>. QED
        BY <3>3, <4>2, <4>3
    <3>. QED
      BY <3>1, <3>2, <3>3
  <2> HIDE DEF h
  <2>3. h = [i \in 0..(n + 1) |-> h[i]]
    BY DEF h
  <2>4. h = [i \in 0..(n + 1) |-> IF i = 0 THEN 0 ELSE h[i - 1] + f[i]]
    BY <2>2, <2>3
  <2>. QED
    BY <2>4
<1> HIDE DEF S
<1>3. Nat \subseteq S
  BY <1>1, <1>2, SetInduction
<1>. QED
  BY <1>3 DEF S

LEMMA TotalSteps ==
    ASSUME NEW f
    PROVE  \E g : /\ g = [i \in 0..MaxCalls |-> IF i = 0 THEN 0 ELSE g[i - 1] + f[i]]
                  /\ Total(f) = g[MaxCalls]
<1> DEFINE g == CHOOSE g : g = [i \in 0..MaxCalls |-> IF i = 0 THEN 0 ELSE g[i - 1] + f[i]]
<1>1. g = [i \in 0..MaxCalls |-> IF i = 0 THEN 0 ELSE g[i - 1] + f[i]]
  BY TotalDefined, WalletConstants
<1>2. Total(f) = g[MaxCalls]
  BY DEF Total
<1>. QED
  BY <1>1, <1>2

\* Functions that differ for one call have sums that differ as much.
LEMMA TotalChange ==
    ASSUME NEW f \in [Calls -> Int], NEW h \in [Calls -> Int], NEW j \in Calls,
           \A i \in Calls \ {j} : h[i] = f[i]
    PROVE  Total(f) \in Int /\ Total(h) = Total(f) + (h[j] - f[j])
<1>1. PICK a : /\ a = [i \in 0..MaxCalls |-> IF i = 0 THEN 0 ELSE a[i - 1] + f[i]]
               /\ Total(f) = a[MaxCalls]
  BY TotalSteps
<1>2. PICK b : /\ b = [i \in 0..MaxCalls |-> IF i = 0 THEN 0 ELSE b[i - 1] + h[i]]
               /\ Total(h) = b[MaxCalls]
  BY TotalSteps
<1> DEFINE d(n) == IF n < j THEN 0 ELSE h[j] - f[j]
           S == {n \in Nat : n <= MaxCalls => a[n] \in Int /\ b[n] = a[n] + d(n)}
<1>3. MaxCalls \in Nat /\ j \in 1..MaxCalls /\ h[j] \in Int /\ f[j] \in Int
  BY WalletConstants DEF Calls
<1>4. 0 \in S
  BY <1>1, <1>2, <1>3
<1>5. ASSUME NEW n \in Nat, n \in S PROVE n + 1 \in S
  <2> SUFFICES ASSUME n + 1 <= MaxCalls PROVE a[n + 1] \in Int /\ b[n + 1] = a[n + 1] + d(n + 1)
    OBVIOUS
  <2>1. n + 1 \in 0..MaxCalls /\ n + 1 # 0 /\ (n + 1) - 1 = n /\ n + 1 \in Calls /\ n <= MaxCalls
    BY <1>3 DEF Calls
  <2>2. /\ a[n + 1] = a[n] + f[n + 1] /\ b[n + 1] = b[n] + h[n + 1]
        /\ f[n + 1] \in Int /\ h[n + 1] \in Int
    BY <1>1, <1>2, <2>1
  <2>3. a[n] \in Int /\ b[n] = a[n] + d(n)
    BY <1>5, <2>1
  <2>4. CASE n + 1 = j
    BY <1>3, <2>2, <2>3, <2>4
  <2>5. CASE n + 1 # j
    <3>1. h[n + 1] = f[n + 1] /\ d(n + 1) = d(n)
      BY <1>3, <2>1, <2>5
    <3>. QED
      BY <1>3, <2>2, <2>3, <3>1
  <2>. QED
    BY <2>4, <2>5
<1> HIDE DEF S
<1>6. MaxCalls \in S
  BY <1>3, <1>4, <1>5, SetInduction
<1>. QED
  BY <1>1, <1>2, <1>3, <1>6 DEF S

LEMMA TotalZero ==
    ASSUME NEW f, \A i \in Calls : f[i] = 0
    PROVE  Total(f) = 0
<1>1. PICK a : /\ a = [i \in 0..MaxCalls |-> IF i = 0 THEN 0 ELSE a[i - 1] + f[i]]
               /\ Total(f) = a[MaxCalls]
  BY TotalSteps
<1> DEFINE S == {n \in Nat : n <= MaxCalls => a[n] = 0}
<1>2. MaxCalls \in Nat
  BY WalletConstants
<1>3. 0 \in S
  BY <1>1, <1>2
<1>4. ASSUME NEW n \in Nat, n \in S PROVE n + 1 \in S
  <2> SUFFICES ASSUME n + 1 <= MaxCalls PROVE a[n + 1] = 0
    OBVIOUS
  <2>1. n + 1 \in 0..MaxCalls /\ n + 1 # 0 /\ (n + 1) - 1 = n /\ n + 1 \in Calls /\ n <= MaxCalls
    BY <1>2 DEF Calls
  <2>2. a[n + 1] = a[n] + f[n + 1] /\ f[n + 1] = 0
    BY <1>1, <2>1
  <2>. QED
    BY <1>4, <2>1, <2>2
<1> HIDE DEF S
<1>5. MaxCalls \in S
  BY <1>2, <1>3, <1>4, SetInduction
<1>. QED
  BY <1>1, <1>2, <1>5 DEF S

-----------------------------------------------------------------------------
(* Sums over the wallets                                                   *)

Pick(T) == CHOOSE x \in T : TRUE

\* The sums of f over the subsets of S
Adds(g, S, f) == g = [T \in SUBSET S |-> IF T = {} THEN 0 ELSE f[Pick(T)] + g[T \ {Pick(T)}]]

LEMMA Picked ==
    ASSUME NEW T, IsFiniteSet(T), T # {}
    PROVE  /\ Pick(T) \in T /\ IsFiniteSet(T \ {Pick(T)})
           /\ Cardinality(T) \in Nat /\ Cardinality(T) > 0
           /\ Cardinality(T \ {Pick(T)}) = Cardinality(T) - 1
<1>1. Pick(T) \in T
  BY DEF Pick
<1>2. IsFiniteSet(T \ {Pick(T)}) /\ Cardinality(T \ {Pick(T)}) = Cardinality(T) - 1
  BY <1>1, FS_RemoveElement
<1>3. Cardinality(T) \in Nat /\ Cardinality(T) # 0
  BY FS_CardinalityType, FS_EmptySet
<1>. QED
  BY <1>1, <1>2, <1>3

LEMMA AddsDefined ==
    ASSUME NEW S, IsFiniteSet(S), NEW f
    PROVE  \E g : Adds(g, S, f)
<1> DEFINE Up(n) == {T \in SUBSET S : Cardinality(T) <= n}
           N == {n \in Nat : \E g : g = [T \in Up(n) |->
                                        IF T = {} THEN 0 ELSE f[Pick(T)] + g[T \ {Pick(T)}]]}
<1>1. \A T \in SUBSET S : /\ IsFiniteSet(T) /\ Cardinality(T) \in Nat
                          /\ Cardinality(T) <= Cardinality(S)
                          /\ Cardinality(T) = 0 <=> T = {}
  BY FS_Subset, FS_CardinalityType, FS_EmptySet
<1>2. \A T \in SUBSET S : T # {} => /\ T \ {Pick(T)} \in SUBSET S
                                   /\ Cardinality(T \ {Pick(T)}) = Cardinality(T) - 1
  BY <1>1, Picked
<1>3. 0 \in N
  <2> DEFINE g == [T \in Up(0) |-> 0]
  <2>1. \A T \in Up(0) : T = {}
    BY <1>1
  <2>2. g = [T \in Up(0) |-> IF T = {} THEN 0 ELSE f[Pick(T)] + g[T \ {Pick(T)}]]
    BY <2>1
  <2>. QED
    BY <2>2
<1>4. ASSUME NEW n \in Nat, n \in N PROVE n + 1 \in N
  <2>1. PICK g : g = [T \in Up(n) |-> IF T = {} THEN 0 ELSE f[Pick(T)] + g[T \ {Pick(T)}]]
    BY <1>4
  <2> DEFINE h == [T \in Up(n + 1) |-> IF T \in Up(n) THEN g[T] ELSE f[Pick(T)] + g[T \ {Pick(T)}]]
  <2>2. ASSUME NEW T \in Up(n + 1)
        PROVE  h[T] = IF T = {} THEN 0 ELSE f[Pick(T)] + h[T \ {Pick(T)}]
    <3>1. CASE T = {}
      <4>1. T \in Up(n)
        BY <1>1, <3>1
      <4>2. h[T] = g[T] /\ g[T] = 0
        BY <2>1, <3>1, <4>1
      <4>. QED
        BY <3>1, <4>2
    <3>2. CASE T # {}
      <4> DEFINE R == T \ {Pick(T)}
      <4>1. R \in Up(n) /\ R \in Up(n + 1)
        BY <1>1, <1>2, <3>2
      <4>2. h[R] = g[R]
        BY <4>1
      <4> HIDE DEF R
      <4>3. CASE T \in Up(n)
        <5>1. h[T] = g[T] /\ g[T] = f[Pick(T)] + g[R]
          BY <2>1, <3>2, <4>3 DEF R
        <5>. QED
          BY <3>2, <4>2, <5>1 DEF R
      <4>4. CASE T \notin Up(n)
        <5>1. h[T] = f[Pick(T)] + g[R]
          BY <4>4 DEF R
        <5>. QED
          BY <3>2, <4>2, <5>1 DEF R
      <4>. QED
        BY <4>3, <4>4
    <3>. QED
      BY <3>1, <3>2
  <2>3. h = [T \in Up(n + 1) |-> h[T]]
    OBVIOUS
  <2> HIDE DEF h
  <2>4. h = [T \in Up(n + 1) |-> IF T = {} THEN 0 ELSE f[Pick(T)] + h[T \ {Pick(T)}]]
    BY <2>2, <2>3
  <2> HIDE DEF Up
  <2>5. n + 1 \in Nat
    OBVIOUS
  <2>. QED
    BY <2>4, <2>5
<1>5. Cardinality(S) \in Nat /\ Up(Cardinality(S)) = SUBSET S
  BY <1>1
<1> HIDE DEF N, Up
<1>6. Cardinality(S) \in N
  BY <1>3, <1>4, <1>5, SetInduction
<1>. QED
  BY <1>5, <1>6 DEF N, Adds

\* Functions that differ for one element have sums that differ as much.
LEMMA AddsChange ==
    ASSUME NEW S, IsFiniteSet(S), NEW f \in [S -> Int], NEW h \in [S -> Int], NEW j \in S,
           \A i \in S \ {j} : h[i] = f[i],
           NEW a, Adds(a, S, f), NEW b, Adds(b, S, h)
    PROVE  a[S] \in Int /\ b[S] = a[S] + (h[j] - f[j])
<1> DEFINE d(T) == IF j \in T THEN h[j] - f[j] ELSE 0
           N == {n \in Nat : \A T \in SUBSET S :
                               Cardinality(T) = n => a[T] \in Int /\ b[T] = a[T] + d(T)}
<1>1. \A T \in SUBSET S : /\ IsFiniteSet(T) /\ Cardinality(T) \in Nat
                          /\ Cardinality(T) = 0 <=> T = {}
  BY FS_Subset, FS_CardinalityType, FS_EmptySet
<1>2. h[j] \in Int /\ f[j] \in Int
  OBVIOUS
<1>3. 0 \in N
  <2>1. a[{}] = 0 /\ b[{}] = 0
    BY DEF Adds
  <2>. QED
    BY <1>1, <2>1
<1>4. ASSUME NEW n \in Nat, n \in N PROVE n + 1 \in N
  <2> SUFFICES ASSUME NEW T \in SUBSET S, Cardinality(T) = n + 1
               PROVE  a[T] \in Int /\ b[T] = a[T] + d(T)
    OBVIOUS
  <2> DEFINE q == Pick(T)
             R == T \ {q}
  <2>1. T # {}
    BY <1>1
  <2>2. q \in T /\ Cardinality(R) = n /\ R \in SUBSET S
    BY <1>1, <2>1, Picked
  <2>3. a[R] \in Int /\ b[R] = a[R] + d(R)
    BY <1>4, <2>2
  <2>4. a[T] = f[q] + a[R] /\ b[T] = h[q] + b[R]
    BY <2>1 DEF Adds
  <2> HIDE DEF q
  <2>5. CASE q = j
    <3>1. d(R) = 0 /\ d(T) = h[j] - f[j]
      BY <2>2, <2>5
    <3>. QED
      BY <1>2, <2>3, <2>4, <2>5, <3>1
  <2>6. CASE q # j
    <3>1. d(R) = d(T) /\ h[q] = f[q] /\ f[q] \in Int
      BY <2>2, <2>6
    <3>2. d(T) \in Int
      BY <1>2
    <3>. QED
      BY <2>3, <2>4, <3>1, <3>2
  <2>. QED
    BY <2>5, <2>6
<1> HIDE DEF N
<1>5. Nat \subseteq N
  BY <1>3, <1>4, SetInduction
<1>. QED
  BY <1>1, <1>5 DEF N

\* What all wallets have of a token
Together(s, m) == MapThenSumSet(LAMBDA w : Holding(s, w, m), Wallets)

LEMMA TogetherAdds ==
    ASSUME NEW s, NEW m, NEW f, \A w \in Wallets : f[w] = Holding(s, w, m)
    PROVE  \E g : Adds(g, Wallets, f) /\ Together(s, m) = g[Wallets]
<1> DEFINE g == CHOOSE g : g = [T \in SUBSET Wallets |->
                                  IF T = {} THEN 0 ELSE Holding(s, Pick(T), m) + g[T \ {Pick(T)}]]
<1>1. IsFiniteSet(Wallets)
  BY WalletConstants, FS_AddElement DEF Wallets
<1>2. PICK h : Adds(h, Wallets, f)
  BY <1>1, AddsDefined
<1>3. \A T \in SUBSET Wallets : T # {} => f[Pick(T)] = Holding(s, Pick(T), m)
  BY DEF Pick
<1>4. h = [T \in SUBSET Wallets |-> IF T = {} THEN 0 ELSE Holding(s, Pick(T), m) + h[T \ {Pick(T)}]]
  BY <1>2, <1>3 DEF Adds
<1>5. g = [T \in SUBSET Wallets |-> IF T = {} THEN 0 ELSE Holding(s, Pick(T), m) + g[T \ {Pick(T)}]]
  BY <1>4
<1>6. Together(s, m) = g[Wallets]
  BY DEF Together, MapThenSumSet, MapThenFoldSet, Pick
<1> HIDE DEF g
<1>7. Adds(g, Wallets, f)
  BY <1>3, <1>5 DEF Adds
<1>. QED
  BY <1>6, <1>7

\* Of the token m, the wallet o is paid due and is passed x by the wallet v.
Moved(s, t, m, o, v, due, x) ==
    \A w \in Wallets : Holding(t, w, m) =
      Holding(s, w, m) + (IF w = o THEN due + x ELSE 0) - (IF w = v THEN x ELSE 0)

\* A payment to one wallet raises the sum as much; passing something on does not.
LEMMA TogetherChange ==
    ASSUME NEW s, NEW t, Amounts(s), NEW m, NEW o \in Wallets, NEW v \in Wallets,
           NEW due \in Int, NEW x \in Int, Moved(s, t, m, o, v, due, x)
    PROVE  Together(s, m) \in Int /\ Together(t, m) = Together(s, m) + due
<1> DEFINE f == [w \in Wallets |-> Holding(s, w, m)]
           h == [w \in Wallets |-> f[w] + (IF w = o THEN due + x ELSE 0)]
           e == [w \in Wallets |-> Holding(t, w, m)]
<1>1. f \in [Wallets -> Int]
  BY BalanceInt
<1>2. h \in [Wallets -> Int] /\ h[o] = f[o] + (due + x) /\ \A w \in Wallets \ {o} : h[w] = f[w]
  BY <1>1
<1>3. e \in [Wallets -> Int] /\ e[v] = h[v] - x /\ \A w \in Wallets \ {v} : e[w] = h[w]
  BY <1>1 DEF Moved
<1>4. (\A w \in Wallets : f[w] = Holding(s, w, m)) /\ (\A w \in Wallets : e[w] = Holding(t, w, m))
  OBVIOUS
<1> HIDE DEF f, h, e
<1>5. IsFiniteSet(Wallets)
  BY WalletConstants, FS_AddElement DEF Wallets
<1>6. PICK a : Adds(a, Wallets, f) /\ Together(s, m) = a[Wallets]
  BY <1>4, TogetherAdds
<1>7. PICK b : Adds(b, Wallets, h)
  BY <1>5, AddsDefined
<1>8. PICK c : Adds(c, Wallets, e) /\ Together(t, m) = c[Wallets]
  BY <1>4, TogetherAdds
<1>9. a[Wallets] \in Int /\ b[Wallets] = a[Wallets] + (h[o] - f[o])
  BY <1>1, <1>2, <1>5, <1>6, <1>7, AddsChange
<1>10. b[Wallets] \in Int /\ c[Wallets] = b[Wallets] + (e[v] - h[v])
  BY <1>2, <1>3, <1>5, <1>7, <1>8, AddsChange
<1>11. f[o] \in Int /\ h[v] \in Int
  BY <1>1, <1>2
<1>. QED
  BY <1>2, <1>3, <1>6, <1>8, <1>9, <1>10, <1>11

LEMMA TogetherInt ==
    ASSUME NEW s, Amounts(s), NEW m
    PROVE  Together(s, m) \in Int
<1> DEFINE f == [w \in Wallets |-> Holding(s, w, m)]
<1>1. (\A w \in Wallets : f[w] = Holding(s, w, m)) /\ f \in [Wallets -> Int]
  BY BalanceInt
<1> HIDE DEF f
<1>2. PICK a : Adds(a, Wallets, f) /\ Together(s, m) = a[Wallets]
  BY <1>1, TogetherAdds
<1>3. IsFiniteSet(Wallets) /\ Temp \in Wallets
  BY WalletConstants, FS_AddElement DEF Wallets
<1>4. a[Wallets] \in Int
  BY <1>1, <1>2, <1>3, AddsChange
<1>. QED
  BY <1>2, <1>4

LEMMA TogetherSame ==
    ASSUME NEW s, NEW t, Amounts(s), NEW m, \A w \in Wallets : Holding(t, w, m) = Holding(s, w, m)
    PROVE  Together(t, m) = Together(s, m)
<1> DEFINE f == [w \in Wallets |-> Holding(s, w, m)]
<1>1. /\ \A w \in Wallets : f[w] = Holding(s, w, m)
      /\ \A w \in Wallets : f[w] = Holding(t, w, m)
      /\ f \in [Wallets -> Int]
  BY BalanceInt
<1> HIDE DEF f
<1>2. PICK a : Adds(a, Wallets, f) /\ Together(s, m) = a[Wallets]
  BY <1>1, TogetherAdds
<1>3. PICK b : Adds(b, Wallets, f) /\ Together(t, m) = b[Wallets]
  BY <1>1, TogetherAdds
<1>4. IsFiniteSet(Wallets) /\ Temp \in Wallets
  BY WalletConstants, FS_AddElement DEF Wallets
<1>5. a[Wallets] \in Int /\ b[Wallets] = a[Wallets] + (f[Temp] - f[Temp]) /\ f[Temp] \in Int
  BY <1>1, <1>2, <1>3, <1>4, AddsChange
<1>. QED
  BY <1>2, <1>3, <1>5

-----------------------------------------------------------------------------
(* The inductive invariant, of the pool p, the ledger l, the chain at the  *)
(* start and the calls f                                                   *)

PoolAddress(p) == DerivePoolAddressWithConfig(p.tokenA, p.tokenB, DeriveConfigPda(0))
MintsOf(p) == {p.tokenA, p.tokenB, LpMint(PoolAddress(p))}
FeeOf(p, m) == DeriveProtocolTokenFee(PoolAddress(p), m)

\* Due, for the pool p
DueOf(p, k, m) ==
    LET lp     == LpMint(PoolAddress(p))
        first  == IF m = p.tokenA THEN k.draw[1] ELSE IF m = p.tokenB THEN k.draw[2] ELSE 0
        single == p.stable /\ (k.minA = 0 \/ k.minB = 0)
    IN  CASE k.kind = "swap" -> (IF m = k.mint THEN -Amount ELSE IF m = lp THEN 0 ELSE k.draw[1])
          [] k.kind = "deposit" ->
                IF m = lp THEN Amount
                ELSE IF p.empty \/ p.stable THEN -Amount ELSE -first
          [] k.kind = "withdraw" ->
                IF m = lp THEN -Amount
                ELSE IF ~single THEN first
                ELSE IF m = (IF k.minB = 0 THEN p.tokenA ELSE p.tokenB) THEN k.draw[1] ELSE 0
          [] k.kind \in {"claim", "claim2"} -> first
          [] k.kind = "partner" -> IF m = lp THEN 0 ELSE Amount

AskedOf(p, k) ==
    /\ {"kind", "owner"} \subseteq DOMAIN k /\ k.owner \in Users
    /\ \/ /\ k.kind = "swap" /\ {"mint", "min", "other"} \subseteq DOMAIN k
          /\ k.mint \in {p.tokenA, p.tokenB}
       \/ k.kind = "deposit"
       \/ k.kind = "withdraw" /\ {"minA", "minB"} \subseteq DOMAIN k
       \/ /\ k.kind \in {"claim", "claim2"} /\ {"other", "payer"} \subseteq DOMAIN k
          /\ k.other \in Users /\ k.payer \in Users
       \/ k.kind = "partner"

MinsOf(p, k, draw) ==
    /\ k.kind = "swap" => draw[1] >= k.min
    /\ k.kind = "withdraw" /\ ~(p.stable /\ (k.minA = 0 \/ k.minB = 0)) =>
         draw[1] >= k.minA /\ draw[2] >= k.minB

LEMMA AtPool ==
    /\ Mints = MintsOf(pool) /\ TokenA = pool.tokenA /\ TokenB = pool.tokenB
    /\ \A m : FeeAccount(m) = FeeOf(pool, m)
    /\ \A k : Asked(k) <=> AskedOf(pool, k)
    /\ \A k, draw : MinsMet(k, draw) <=> MinsOf(pool, k, draw)
    /\ \A k, m : Due(k, m) = DueOf(pool, k, m)
<1>1. /\ Mints = MintsOf(pool) /\ TokenA = pool.tokenA /\ TokenB = pool.tokenB
      /\ Pool = PoolAddress(pool) /\ Lp = LpMint(PoolAddress(pool))
  BY DEF Mints, MintsOf, TokenA, TokenB, Lp, Pool, PoolAddress
<1>2. \A m : FeeAccount(m) = FeeOf(pool, m)
  BY <1>1 DEF FeeAccount, FeeOf
<1>3. ASSUME NEW k PROVE Asked(k) <=> AskedOf(pool, k)
  BY <1>1 DEF Asked, AskedOf
<1>4. ASSUME NEW k, NEW draw PROVE MinsMet(k, draw) <=> MinsOf(pool, k, draw)
  BY DEF MinsMet, MinsOf, Single, Stable
<1>5. ASSUME NEW k, NEW m PROVE Due(k, m) = DueOf(pool, k, m)
  BY DEF Due, DueOf, Stable, Empty, TokenA, TokenB, Lp, Pool, PoolAddress
<1>. QED
  BY <1>1, <1>2, <1>3, <1>4, <1>5

\* What calls have paid the wallet w
Share(p, f, w, m) ==
    [c \in Calls |-> IF f[c].pc = "landed" /\ Beneficiary(f[c]) = w THEN DueOf(p, f[c], m) ELSE 0]

\* What calls have paid
AllShares(p, f, m) == [c \in Calls |-> IF f[c].pc = "landed" THEN DueOf(p, f[c], m) ELSE 0]

\* The calls that may still be paid
Waiting(f) == {c \in Calls : f[c].pc # "landed"}

\* No landed call passed wrapped SOL on to another wallet.
Kept(f) == \A c \in Calls : f[c].pc = "landed" /\ f[c].kind = "claim2" => f[c].other = f[c].owner

\* The temporary wallet has nothing wrapped, and the fee accounts have enough for
\* all calls to come.
Sound(p, l, f) ==
    /\ Amounts(l)
    /\ Native \in {p.tokenA, p.tokenB} => Balance(l, Ata(Native, Temp)) = 0
    /\ \A m \in {p.tokenA, p.tokenB} : Balance(l, FeeOf(p, m)) >= Amount * Cardinality(Waiting(f))

\* Every wallet has what it is due.
Paid(p, l, st, f) ==
    \A w \in Wallets, m \in MintsOf(p) : Holding(l, w, m) = Holding(st, w, m) + Total(Share(p, f, w, m))

\* All wallets together have what they are due.
Whole(p, l, st, f) ==
    \A m \in MintsOf(p) : Together(l, m) = Together(st, m) + Total(AllShares(p, f, m))

\* Only what each wallet has depends on where claims were sent.
Settled(p, l, st, f) == Sound(p, l, f) /\ (Kept(f) => Paid(p, l, st, f)) /\ Whole(p, l, st, f)

CallOk(p, k) ==
    /\ "pc" \in DOMAIN k
    /\ k.pc # "unused" => AskedOf(p, k)
    /\ k.pc = "landed" => k.draw \in Draws /\ MinsOf(p, k, k.draw)

Inv ==
    /\ pool \in Pools
    /\ {"bal", "made", "sol"} \subseteq DOMAIN ledger /\ Amounts(start)
    /\ DOMAIN call = Calls /\ \A c \in Calls : CallOk(pool, call[c])
    /\ Settled(pool, ledger, start, call)

LEMMA DueOfInt ==
    ASSUME NEW p, NEW k, AskedOf(p, k), k.draw \in Draws, NEW m
    PROVE  DueOf(p, k, m) \in Int
<1>1. Amount \in Int /\ k.draw[1] \in Int /\ k.draw[2] \in Int
  BY WalletConstants
<1>2. k.kind \in {"swap", "deposit", "withdraw", "claim", "claim2", "partner"}
  BY DEF AskedOf
<1>3. CASE k.kind = "swap"
  BY <1>1, <1>3 DEF DueOf
<1>4. CASE k.kind = "deposit"
  BY <1>1, <1>4 DEF DueOf
<1>5. CASE k.kind = "withdraw"
  BY <1>1, <1>5 DEF DueOf
<1>6. CASE k.kind \in {"claim", "claim2"}
  BY <1>1, <1>6 DEF DueOf
<1>7. CASE k.kind = "partner"
  BY <1>1, <1>7 DEF DueOf
<1>. QED
  BY <1>2, <1>3, <1>4, <1>5, <1>6, <1>7

LEMMA ShareInt ==
    ASSUME NEW p, NEW f, \A c \in Calls : CallOk(p, f[c]), NEW w, NEW m
    PROVE  Share(p, f, w, m) \in [Calls -> Int] /\ AllShares(p, f, m) \in [Calls -> Int]
<1>1. ASSUME NEW c \in Calls, f[c].pc = "landed" PROVE DueOf(p, f[c], m) \in Int
  <2>1. AskedOf(p, f[c]) /\ f[c].draw \in Draws
    BY <1>1 DEF CallOk
  <2>. QED
    BY <2>1, DueOfInt
<1>. QED
  BY <1>1 DEF Share, AllShares

\* The same calls have landed.
LEMMA SameCalls ==
    ASSUME NEW f, NEW h,
           \A c \in Calls : /\ f[c].pc = "landed" => h[c] = f[c]
                            /\ f[c].pc # "landed" => h[c].pc # "landed"
    PROVE  /\ Waiting(h) = Waiting(f) /\ (Kept(h) <=> Kept(f))
           /\ \A p, w, m : Share(p, h, w, m) = Share(p, f, w, m)
           /\ \A p, m : AllShares(p, h, m) = AllShares(p, f, m)
<1>1. Waiting(h) = Waiting(f)
  BY DEF Waiting
<1>2. Kept(h) <=> Kept(f)
  BY DEF Kept
<1>3. ASSUME NEW p, NEW w, NEW m PROVE Share(p, h, w, m) = Share(p, f, w, m)
  BY DEF Share
<1>4. ASSUME NEW p, NEW m PROVE AllShares(p, h, m) = AllShares(p, f, m)
  BY DEF AllShares
<1>. QED
  BY <1>1, <1>2, <1>3, <1>4

LEMMA SameSettled ==
    ASSUME NEW f, NEW h,
           \A c \in Calls : /\ f[c].pc = "landed" => h[c] = f[c]
                            /\ f[c].pc # "landed" => h[c].pc # "landed",
           NEW p, NEW l, NEW st, Settled(p, l, st, f)
    PROVE  Settled(p, l, st, h)
BY SameCalls DEF Settled, Sound, Paid, Whole

\* Holdings and other balances of a ledger are those of the state it was committed from.
LEMMA CommittedFacts ==
    ASSUME NEW s
    PROVE  LET l == Committed(s)
           IN  /\ {"bal", "made", "sol"} \subseteq DOMAIN l
               /\ Amounts(s) => Amounts(l)
               /\ \A a : Balance(l, a) = Balance(s, a)
               /\ \A w, m : Holding(l, w, m) = Holding(s, w, m)
<1> DEFINE l == Committed(s)
<1>1. {"bal", "made", "sol"} \subseteq DOMAIN l /\ l.bal = s.bal /\ l.sol = s.sol
  BY DEF Committed
<1> HIDE DEF l
<1>2. \A a : Balance(l, a) = Balance(s, a)
  BY <1>1 DEF Balance
<1>. QED
  BY <1>1, <1>2 DEF Amounts, Holding, l

\* What an asked call is, whatever its progress.
LEMMA AskedFields ==
    ASSUME NEW p, NEW k, AskedOf(p, k), NEW h, DOMAIN k \subseteq DOMAIN h,
           \A x \in DOMAIN k \ {"pc", "quiet", "draw"} : h[x] = k[x]
    PROVE  AskedOf(p, h)
<1>1. h.kind = k.kind /\ h.owner = k.owner /\ {"kind", "owner"} \subseteq DOMAIN k /\ k.owner \in Users
  BY DEF AskedOf
<1>2. k.kind \in {"swap", "deposit", "withdraw", "claim", "claim2", "partner"}
  BY DEF AskedOf
<1>3. CASE k.kind = "swap"
  <2>1. {"mint", "min", "other"} \subseteq DOMAIN k /\ k.mint \in {p.tokenA, p.tokenB}
    BY <1>3 DEF AskedOf
  <2>2. h.mint = k.mint
    BY <2>1
  <2>. QED
    BY <1>1, <1>3, <2>1, <2>2 DEF AskedOf
<1>4. CASE k.kind = "withdraw"
  <2>1. {"minA", "minB"} \subseteq DOMAIN k
    BY <1>4 DEF AskedOf
  <2>. QED
    BY <1>1, <1>4, <2>1 DEF AskedOf
<1>5. CASE k.kind \in {"claim", "claim2"}
  <2>1. {"other", "payer"} \subseteq DOMAIN k /\ k.other \in Users /\ k.payer \in Users
    BY <1>5 DEF AskedOf
  <2>2. h.other = k.other /\ h.payer = k.payer
    BY <2>1
  <2>. QED
    BY <1>1, <1>5, <2>1, <2>2 DEF AskedOf
<1>6. CASE k.kind \in {"deposit", "partner"}
  BY <1>1, <1>6 DEF AskedOf
<1>. QED
  BY <1>2, <1>3, <1>4, <1>5, <1>6

LEMMA RequestAsked ==
    ASSUME NEW k \in Requests
    PROVE  AskedOf(pool, k) /\ "pc" \notin DOMAIN k
<1>1. Owners \subseteq Users /\ Partner \in Users
  BY WalletConstants
<1>2. CASE k \in [kind : {"swap"}, owner : Owners, other : Users, mint : {TokenA, TokenB}, min : {MinOut}]
  <2>1. /\ DOMAIN k = {"kind", "owner", "other", "mint", "min"} /\ k.kind = "swap" /\ k.owner \in Owners
        /\ k.mint \in {pool.tokenA, pool.tokenB}
    BY <1>2 DEF TokenA, TokenB
  <2>. QED
    BY <1>1, <2>1 DEF AskedOf
<1>3. CASE k \in [kind : {"deposit"}, owner : Owners]
  <2>1. DOMAIN k = {"kind", "owner"} /\ k.kind = "deposit" /\ k.owner \in Owners
    BY <1>3
  <2>. QED
    BY <1>1, <2>1 DEF AskedOf
<1>4. CASE k \in [kind : {"withdraw"}, owner : Owners, minA : {0, MinOut}, minB : {0, MinOut}]
  <2>1. DOMAIN k = {"kind", "owner", "minA", "minB"} /\ k.kind = "withdraw" /\ k.owner \in Owners
    BY <1>4
  <2>. QED
    BY <1>1, <2>1 DEF AskedOf
<1>5. CASE k \in [kind : {"claim", "claim2"}, owner : Owners, other : Users, payer : Users]
  <2>1. /\ DOMAIN k = {"kind", "owner", "other", "payer"} /\ k.kind \in {"claim", "claim2"}
        /\ k.owner \in Owners /\ k.other \in Users /\ k.payer \in Users
    BY <1>5
  <2>. QED
    BY <1>1, <2>1 DEF AskedOf
<1>6. CASE k \in [kind : {"partner"}, owner : {Partner}]
  <2>1. DOMAIN k = {"kind", "owner"} /\ k.kind = "partner" /\ k.owner = Partner
    BY <1>6
  <2>. QED
    BY <1>1, <2>1 DEF AskedOf
<1>. QED
  BY <1>2, <1>3, <1>4, <1>5, <1>6 DEF Requests

LEMMA BuildInv ==
    ASSUME Inv, NEW c \in Calls, Build(c)
    PROVE  Inv'
<1>1. PICK k \in Requests :
        call' = [call EXCEPT ![c] =
                   [pc |-> "built", quiet |-> TRUE, seen |-> LookedUp \cap DOMAIN ledger.bal] ++ k]
  BY DEF Build
<1> DEFINE seen == LookedUp \cap DOMAIN ledger.bal
           new == [pc |-> "built", quiet |-> TRUE, seen |-> seen] ++ k
<1>2. call' = [call EXCEPT ![c] = new] /\ pool' = pool /\ ledger' = ledger /\ start' = start
  BY <1>1 DEF Build
<1>3. AskedOf(pool, k)
  BY RequestAsked
<1> HIDE DEF seen
<1>4. /\ DOMAIN new = {"pc", "quiet", "seen"} \cup DOMAIN k /\ new.pc = "built"
      /\ \A x \in DOMAIN k \ {"pc", "quiet", "seen"} : new[x] = k[x]
  BY DEF ++
<1>5. AskedOf(pool, new)
  <2>1. "seen" \notin DOMAIN k
    BY DEF Requests
  <2> HIDE DEF new
  <2>2. DOMAIN k \subseteq DOMAIN new /\ \A x \in DOMAIN k \ {"pc", "quiet", "draw"} : new[x] = k[x]
    BY <1>4, <2>1
  <2>. QED
    BY <1>3, <2>2, AskedFields
<1> HIDE DEF new
<1>6. CallOk(pool, new)
  BY <1>4, <1>5 DEF CallOk
<1>7. DOMAIN call' = Calls /\ \A d \in Calls : call'[d] = IF d = c THEN new ELSE call[d]
  BY <1>2 DEF Inv
<1>8. \A d \in Calls : CallOk(pool, call'[d])
  BY <1>6, <1>7 DEF Inv
<1>9. \A d \in Calls : /\ call[d].pc = "landed" => call'[d] = call[d]
                       /\ call[d].pc # "landed" => call'[d].pc # "landed"
  BY <1>4, <1>7 DEF Build
<1> DEFINE h == call'
<1>10. \A d \in Calls : /\ call[d].pc = "landed" => h[d] = call[d]
                        /\ call[d].pc # "landed" => h[d].pc # "landed"
  BY <1>9
<1> HIDE DEF h
<1>11. Settled(pool, ledger, start, h)
  BY <1>10, SameSettled DEF Inv
<1>. QED
  BY <1>2, <1>7, <1>8, <1>11 DEF Inv, h

\* Of the calls that may still be paid, one has landed.
LEMMA OneLess ==
    ASSUME NEW f, NEW h, NEW c \in Calls, f[c].pc # "landed", Waiting(h) = Waiting(f) \ {c}
    PROVE  /\ Cardinality(Waiting(h)) \in Nat /\ Cardinality(Waiting(f)) = Cardinality(Waiting(h)) + 1
           /\ Amount * Cardinality(Waiting(f)) = Amount * Cardinality(Waiting(h)) + Amount
           /\ Amount * Cardinality(Waiting(h)) \in Nat
<1>1. MaxCalls \in Nat /\ Amount \in Nat
  BY WalletConstants
<1>2. IsFiniteSet(Calls)
  BY <1>1, FS_Interval DEF Calls
<1>3. Waiting(f) \subseteq Calls /\ c \in Waiting(f)
  BY DEF Waiting
<1>4. IsFiniteSet(Waiting(f))
  BY <1>2, <1>3, FS_Subset
<1>5. IsFiniteSet(Waiting(h)) /\ Cardinality(Waiting(h)) = Cardinality(Waiting(f)) - 1
  BY <1>3, <1>4, FS_RemoveElement
<1>6. Cardinality(Waiting(f)) \in Nat /\ Cardinality(Waiting(h)) \in Nat
  BY <1>4, <1>5, FS_CardinalityType
<1> DEFINE n == Cardinality(Waiting(h))
           N == Cardinality(Waiting(f))
<1>7. n \in Nat /\ N = n + 1
  BY <1>5, <1>6
<1> HIDE DEF n, N
<1>8. Amount * N = Amount * n + Amount /\ Amount * n \in Nat
  BY <1>1, <1>7
<1>. QED
  BY <1>7, <1>8 DEF n, N

\* A transaction that fails has no effect.
LEMMA LandFailsInv ==
    ASSUME Inv, NEW c \in Calls, call[c].pc = "built", NEW why \in Reasons,
           call' = [call EXCEPT ![c].pc = why], UNCHANGED <<pool, ledger, start>>
    PROVE  Inv'
<1> DEFINE new == [call[c] EXCEPT !.pc = why]
<1>1. DOMAIN call' = Calls /\ \A d \in Calls : call'[d] = IF d = c THEN new ELSE call[d]
  BY DEF Inv
<1>2. CallOk(pool, call[c]) /\ AskedOf(pool, call[c])
  BY DEF Inv, CallOk
<1>3. new.pc = why /\ DOMAIN new = DOMAIN call[c] /\ \A x \in DOMAIN call[c] \ {"pc"} : new[x] = call[c][x]
  BY <1>2 DEF CallOk
<1>4. why # "unused" /\ why # "landed"
  BY DEF Reasons
<1> HIDE DEF new
<1>5. AskedOf(pool, new)
  BY <1>2, <1>3, AskedFields
<1>6. CallOk(pool, new)
  BY <1>2, <1>3, <1>4, <1>5 DEF CallOk
<1>7. \A d \in Calls : CallOk(pool, call'[d])
  BY <1>1, <1>6 DEF Inv
<1>8. \A d \in Calls : /\ call[d].pc = "landed" => call'[d] = call[d]
                       /\ call[d].pc # "landed" => call'[d].pc # "landed"
  BY <1>1, <1>3, <1>4
<1> DEFINE h == call'
<1> HIDE DEF h
<1>9. \A d \in Calls : /\ call[d].pc = "landed" => h[d] = call[d]
                       /\ call[d].pc # "landed" => h[d].pc # "landed"
  BY <1>8 DEF h
<1>10. Settled(pool, ledger, start, h)
  BY <1>9, SameSettled DEF Inv
<1>. QED
  BY <1>1, <1>7, <1>10 DEF Inv, h

\* Calls that are disturbed are the same but for that.
LEMMA DisturbedFacts ==
    ASSUME Inv, NEW c
    PROVE  /\ DOMAIN Disturbed(c) = Calls
           /\ \A d \in Calls : /\ CallOk(pool, Disturbed(c)[d])
                               /\ Disturbed(c)[d].pc = call[d].pc
                               /\ call[d].pc = "landed" => Disturbed(c)[d] = call[d]
<1>1. ASSUME NEW d \in Calls
      PROVE  /\ CallOk(pool, Disturbed(c)[d])
             /\ Disturbed(c)[d].pc = call[d].pc
             /\ call[d].pc = "landed" => Disturbed(c)[d] = call[d]
  <2> DEFINE k == call[d]
             h == [k EXCEPT !.quiet = FALSE]
  <2>1. CallOk(pool, k)
    BY DEF Inv
  <2>2. Disturbed(c)[d] = IF d # c /\ k.pc = "built" THEN h ELSE k
    BY DEF Disturbed
  <2>3. DOMAIN h = DOMAIN k /\ \A x \in DOMAIN k \ {"quiet"} : h[x] = k[x]
    OBVIOUS
  <2> HIDE DEF k, h
  <2>4. h.pc = k.pc
    BY <2>1, <2>3 DEF CallOk
  <2>5. CASE d # c /\ k.pc = "built"
    <3>1. AskedOf(pool, k)
      BY <2>1, <2>5 DEF CallOk
    <3>2. AskedOf(pool, h)
      BY <2>3, <3>1, AskedFields
    <3>3. CallOk(pool, h)
      BY <2>1, <2>3, <2>4, <2>5, <3>2 DEF CallOk
    <3>. QED
      BY <2>2, <2>4, <2>5, <3>3 DEF k
  <2>6. CASE ~(d # c /\ k.pc = "built")
    BY <2>1, <2>2, <2>6 DEF k
  <2>. QED
    BY <2>5, <2>6
<1>2. DOMAIN Disturbed(c) = Calls
  BY DEF Disturbed
<1>. QED
  BY <1>1, <1>2

\* A call that lands pays what is due to its beneficiary.
LEMMA LandSettles ==
    ASSUME Inv, NEW c \in Calls, NEW k, k = call[c], k.pc = "built", NEW draw \in Draws,
           NEW out, out = Run(ledger, Tx(k), draw), out.res = "ok",
           NEW h, h[c] = Done(k, draw), \A d \in Calls : CallOk(pool, h[d]),
           \A d \in Calls \ {c} : /\ h[d].pc = call[d].pc
                                  /\ call[d].pc = "landed" => h[d] = call[d],
           NEW l, l = Committed(out)
    PROVE  Settled(pool, l, start, h)
<1> DEFINE n == Done(k, draw)
<1>1. AskedOf(pool, k) /\ Asked(k)
  <2>1. CallOk(pool, k)
    BY DEF Inv
  <2>. QED
    BY <2>1, AtPool DEF CallOk
<1>2. n.pc = "landed" /\ n.draw = draw /\ n.kind = k.kind /\ Beneficiary(n) = Beneficiary(k)
  <2>1. n.pc = "landed" /\ n.draw = draw
    BY DoneFacts
  <2>. QED
    BY <1>1, <2>1, DueInt
<1> HIDE DEF n
<1>3. h[c] = n /\ \A d \in Calls : call[d].pc = "landed" => h[d] = call[d]
  BY DEF n
<1>4. Sound(pool, ledger, call)
  BY DEF Inv, Settled
<1>5. ASSUME Kept(h)
      PROVE  Kept(call) /\ (k.kind = "claim2" => k.other = k.owner)
  <2>1. Kept(call)
    BY <1>3, <1>5 DEF Kept
  <2>2. ASSUME k.kind = "claim2" PROVE k.other = k.owner
    <3>1. n.other = n.owner
      BY <1>2, <1>3, <1>5, <2>2 DEF Kept
    <3>2. {"other", "owner"} \subseteq DOMAIN k
      BY <1>1, <2>2 DEF AskedOf
    <3>3. n.other = k.other /\ n.owner = k.owner
      BY <3>2, DoneFacts DEF n
    <3>. QED
      BY <3>1, <3>3
  <2>. QED
    BY <2>1, <2>2
<1>6. Beneficiary(n) \in Wallets /\ \A m : Due(n, m) \in Int
  <2>1. Beneficiary(k) \in Users
    BY <1>1 DEF AskedOf, Beneficiary
  <2>. QED
    BY <1>1, <1>2, <2>1, DueInt DEF Wallets, n
<1>7. Waiting(h) = Waiting(call) \ {c}
  BY <1>2, <1>3 DEF Waiting
<1> DEFINE left == Amount * Cardinality(Waiting(h))
           all == Amount * Cardinality(Waiting(call))
<1>8. all = left + Amount /\ left \in Nat /\ Amount \in Nat
  <2>1. call[c].pc # "landed"
    OBVIOUS
  <2>2. /\ Amount * Cardinality(Waiting(call)) = Amount * Cardinality(Waiting(h)) + Amount
        /\ Amount * Cardinality(Waiting(h)) \in Nat
    BY <1>7, <2>1, OneLess
  <2>. QED
    BY <2>2, WalletConstants
<1> HIDE DEF left, all
<1>9. \A a : Balance(ledger, a) \in Int
  BY <1>4, BalanceInt DEF Sound
<1>10. \A m \in {TokenA, TokenB} : Balance(ledger, FeeAccount(m)) >= left + Amount
  BY <1>4, <1>8, AtPool DEF Sound, all
<1>11. Funded(ledger)
  <2>1. Amounts(ledger) /\ (IsNativePool => Balance(ledger, Ata(Native, Temp)) = 0)
    BY <1>4, AtPool DEF Sound, IsNativePool
  <2>2. \A m \in {TokenA, TokenB} : Balance(ledger, FeeAccount(m)) >= Amount
    BY <1>8, <1>9, <1>10
  <2>. QED
    BY <2>1, <2>2 DEF Funded
<1>12. Passing(ledger, out, n) /\ (Kept(h) => Effect(ledger, out, n))
  <2>1. pool \in Pools /\ {"bal", "made", "sol"} \subseteq DOMAIN ledger
    BY DEF Inv
  <2>2. /\ Ends(ledger, out, k, draw)
        /\ out.res = "ok" /\ Funded(ledger) => Passing(ledger, out, Done(k, draw))
    BY <1>1, <2>1, TxEnds
  <2>. QED
    BY <1>5, <1>11, <2>2 DEF Ends, n
<1>13. PICK v \in Wallets, x \in Int : Passes(ledger, out, n, v, x)
  BY <1>12 DEF Passing
<1>14. /\ Amounts(out) => Amounts(l)
       /\ \A a : Balance(l, a) = Balance(out, a)
       /\ \A w, m : Holding(l, w, m) = Holding(out, w, m)
  BY CommittedFacts
<1>15. Amounts(l)
  BY <1>13, <1>14 DEF Passes
<1>16. ASSUME Kept(h), NEW w \in Wallets, NEW m \in MintsOf(pool)
       PROVE  Holding(l, w, m) = Holding(start, w, m) + Total(Share(pool, h, w, m))
  <2> DEFINE f == Share(pool, call, w, m)
             g == Share(pool, h, w, m)
             due == IF w = Beneficiary(n) THEN Due(n, m) ELSE 0
  <2>1. f \in [Calls -> Int] /\ g \in [Calls -> Int]
    BY ShareInt DEF Inv
  <2>2. \A d \in Calls \ {c} : g[d] = f[d]
    BY DEF Share
  <2>3. f[c] = 0
    BY DEF Share
  <2>4. g[c] = due
    BY <1>2, <1>3, AtPool DEF Share
  <2>5. Holding(l, w, m) = Holding(ledger, w, m) + due
    BY <1>12, <1>14, <1>16, AtPool DEF Effect
  <2>6. Holding(ledger, w, m) = Holding(start, w, m) + Total(f)
    BY <1>5, <1>16 DEF Inv, Settled, Paid
  <2>7. Holding(start, w, m) \in Int
    <3>1. Amounts(start)
      BY DEF Inv
    <3>2. \A a : Balance(start, a) \in Int
      BY <3>1, BalanceInt
    <3>. QED
      BY <3>1, <3>2 DEF Holding, Amounts
  <2> HIDE DEF f, g, due
  <2>8. Total(f) \in Int /\ Total(g) = Total(f) + (g[c] - f[c])
    BY <2>1, <2>2, TotalChange
  <2>9. due \in Int
    BY <2>1, <2>4
  <2>10. Total(g) = Total(f) + due
    BY <2>3, <2>4, <2>8, <2>9
  <2>11. Holding(l, w, m) = Holding(start, w, m) + Total(g)
    BY <2>5, <2>6, <2>7, <2>8, <2>9, <2>10
  <2>. QED
    BY <2>11 DEF g
<1>17. ASSUME Native \in {pool.tokenA, pool.tokenB} PROVE Balance(l, Ata(Native, Temp)) = 0
  BY <1>13, <1>14, <1>17, AtPool DEF Passes, IsNativePool
<1>18. ASSUME NEW m \in {pool.tokenA, pool.tokenB} PROVE Balance(l, FeeOf(pool, m)) >= left
  <2>1. m \in {TokenA, TokenB} /\ FeeOf(pool, m) = FeeAccount(m)
    BY AtPool
  <2>2. Balance(l, FeeAccount(m)) = Balance(ledger, FeeAccount(m)) - (IF n.kind = "partner" THEN Amount ELSE 0)
    BY <1>13, <1>14, <2>1 DEF Passes
  <2>3. Balance(ledger, FeeAccount(m)) \in Int /\ Balance(ledger, FeeAccount(m)) >= left + Amount
    BY <1>9, <1>10, <2>1
  <2>4. Balance(l, FeeAccount(m)) >= left
    BY <1>8, <2>2, <2>3
  <2>. QED
    BY <2>1, <2>4
<1>19. ASSUME NEW m \in MintsOf(pool)
       PROVE  Together(l, m) = Together(start, m) + Total(AllShares(pool, h, m))
  <2> DEFINE f == AllShares(pool, call, m)
             g == AllShares(pool, h, m)
             due == Due(n, m)
             y == IF m = Native THEN x ELSE 0
             o == Beneficiary(n)
  <2>1. f \in [Calls -> Int] /\ g \in [Calls -> Int]
    BY ShareInt DEF Inv
  <2>2. \A d \in Calls \ {c} : g[d] = f[d]
    BY DEF AllShares
  <2>3. f[c] = 0
    BY DEF AllShares
  <2>4. g[c] = due
    BY <1>2, <1>3, AtPool DEF AllShares
  <2>5. due \in Int /\ y \in Int /\ o \in Wallets
    BY <1>6
  <2>6. ASSUME NEW w \in Wallets
        PROVE  Holding(l, w, m) =
                 Holding(ledger, w, m) + (IF w = o THEN due + y ELSE 0) - (IF w = v THEN y ELSE 0)
    <3>1. Holding(out, w, m) = Holding(ledger, w, m)
           + (IF w = o THEN Due(n, m) + (IF m = Native THEN x ELSE 0) ELSE 0)
           - (IF w = v /\ m = Native THEN x ELSE 0)
      BY <1>13, AtPool DEF Passes
    <3>. QED
      BY <1>14, <3>1
  <2> HIDE DEF f, g, due, y, o
  <2>7. Moved(ledger, l, m, o, v, due, y)
    BY <2>6 DEF Moved
  <2>8. Amounts(ledger) /\ Amounts(start)
    BY <1>4 DEF Sound, Inv
  <2>9. Together(l, m) = Together(ledger, m) + due
    BY <2>5, <2>7, <2>8, TogetherChange
  <2>10. Together(ledger, m) = Together(start, m) + Total(f)
    BY DEF Inv, Settled, Whole, f
  <2>11. Together(start, m) \in Int
    BY <2>8, TogetherInt
  <2>12. Total(f) \in Int /\ Total(g) = Total(f) + (g[c] - f[c])
    BY <2>1, <2>2, TotalChange
  <2>13. Together(l, m) = Together(start, m) + Total(g)
    BY <2>3, <2>4, <2>5, <2>9, <2>10, <2>11, <2>12
  <2>. QED
    BY <2>13 DEF g
<1>20. Sound(pool, l, h)
  BY <1>15, <1>17, <1>18 DEF Sound, left
<1>21. Kept(h) => Paid(pool, l, start, h)
  BY <1>16 DEF Paid
<1>22. Whole(pool, l, start, h)
  BY <1>19 DEF Whole
<1>. QED
  BY <1>20, <1>21, <1>22 DEF Settled

LEMMA LandInv ==
    ASSUME Inv, NEW c \in Calls, Land(c)
    PROVE  Inv'
<1> DEFINE k == call[c]
<1>1. PICK draw \in Draws :
        LET out == Run(ledger, Tx(call[c]), draw)
        IN  IF out.res = "ok"
            THEN /\ ledger' = Committed(out)
                 /\ call' = [Disturbed(c) EXCEPT ![c] = [pc |-> "landed", draw |-> draw] ++ @]
            ELSE call' = [call EXCEPT ![c].pc = out.res] /\ UNCHANGED ledger
  BY DEF Land
<1> DEFINE out == Run(ledger, Tx(k), draw)
<1>2. k.pc = "built" /\ pool' = pool /\ start' = start
  BY DEF Land
<1>3. CallOk(pool, k) /\ Asked(k)
  <2>1. CallOk(pool, k)
    BY DEF Inv
  <2>. QED
    BY <1>2, <2>1, AtPool DEF CallOk
<1>4. Ends(ledger, out, k, draw)
  <2>1. pool \in Pools /\ {"bal", "made", "sol"} \subseteq DOMAIN ledger
    BY DEF Inv
  <2>. QED
    BY <1>3, <2>1, TxEnds
<1> HIDE DEF out
<1>5. CASE out.res # "ok"
  <2>1. call' = [call EXCEPT ![c].pc = out.res] /\ UNCHANGED <<pool, ledger, start>>
    BY <1>1, <1>2, <1>5 DEF out
  <2>2. out.res \in Reasons
    BY <1>4, <1>5 DEF Ends
  <2>. QED
    BY <1>2, <2>1, <2>2, LandFailsInv
<1>6. CASE out.res = "ok"
  <2> DEFINE n == Done(k, draw)
             D == Disturbed(c)
  <2>1. D[c] = k
    BY DEF Disturbed
  <2>2. /\ DOMAIN D = Calls
        /\ \A d \in Calls : /\ CallOk(pool, D[d]) /\ D[d].pc = call[d].pc
                            /\ call[d].pc = "landed" => D[d] = call[d]
    BY DisturbedFacts
  <2>3. ledger' = Committed(out) /\ call' = [D EXCEPT ![c] = [pc |-> "landed", draw |-> draw] ++ @]
    BY <1>1, <1>6 DEF out
  <2> HIDE DEF D, k
  <2>4. DOMAIN call' = Calls /\ call'[c] = n /\ \A d \in Calls \ {c} : call'[d] = D[d]
    BY <2>1, <2>2, <2>3 DEF Done
  <2>5. CallOk(pool, n)
    <3>1. /\ n.draw = draw /\ n.pc = "landed" /\ \A x \in DOMAIN k \ {"pc", "draw"} : n[x] = k[x]
      BY DoneFacts
    <3>2. DOMAIN k \subseteq DOMAIN n /\ "pc" \in DOMAIN n
      BY DEF Done, ++
    <3> HIDE DEF n
    <3>3. AskedOf(pool, k)
      BY <1>3, AtPool
    <3>4. AskedOf(pool, n)
      BY <3>1, <3>2, <3>3, AskedFields
    <3>5. MinsOf(pool, k, draw)
      BY <1>4, <1>6, AtPool DEF Ends
    <3>6. MinsOf(pool, n, draw)
      <4>1. n.kind = k.kind
        BY <3>1, <3>3 DEF AskedOf
      <4>2. k.kind = "swap" => n.min = k.min
        BY <3>1, <3>3 DEF AskedOf
      <4>3. k.kind = "withdraw" => n.minA = k.minA /\ n.minB = k.minB
        BY <3>1, <3>3 DEF AskedOf
      <4>. QED
        BY <3>5, <4>1, <4>2, <4>3 DEF MinsOf
    <3>. QED
      BY <3>1, <3>2, <3>4, <3>6 DEF CallOk
  <2> HIDE DEF n
  <2>6. \A d \in Calls : CallOk(pool, call'[d])
    BY <2>2, <2>4, <2>5
  <2> DEFINE h == call'
             l == ledger'
  <2>7. /\ h[c] = Done(k, draw) /\ \A d \in Calls : CallOk(pool, h[d])
        /\ \A d \in Calls \ {c} : h[d].pc = call[d].pc /\ (call[d].pc = "landed" => h[d] = call[d])
    BY <2>2, <2>4, <2>6 DEF n
  <2>8. l = Committed(out) /\ k = call[c] /\ out = Run(ledger, Tx(k), draw)
    BY <2>3 DEF out, k
  <2> HIDE DEF h, l
  <2>9. Settled(pool, l, start, h)
    BY <1>2, <1>6, <2>7, <2>8, LandSettles
  <2>10. {"bal", "made", "sol"} \subseteq DOMAIN ledger'
    BY <2>3, CommittedFacts
  <2>11. Settled(pool', ledger', start', call')
    BY <1>2, <2>9 DEF h, l
  <2>. QED
    BY <1>2, <2>4, <2>6, <2>10, <2>11 DEF Inv
<1>. QED
  BY <1>5, <1>6

LEMMA WrapInv ==
    ASSUME Inv, NEW w \in Owners, WrapOwn(w)
    PROVE  Inv'
<1> DEFINE open == GetOrCreateATA(DOMAIN ledger.bal, Native, w, w)
           wrap == WrapSOL(Native, w, 1)
           out == Run(ledger, open \o wrap, <<0, 0>>)
<1>1. /\ out.res = "ok" /\ ledger' = Committed(out) /\ call' = Disturbed(0)
      /\ pool' = pool /\ start' = start
  BY DEF WrapOwn
<1>2. w \in Users /\ {"bal", "made", "sol"} \subseteq DOMAIN ledger
  BY WalletConstants DEF Inv
<1>3. AllNeutral(open \o wrap)
  <2>1. Prepares(open, {w})
    BY AtaPrepares
  <2>2. Prepares(wrap, {w})
    BY <1>2, WrapPrepares
  <2> HIDE DEF open, wrap
  <2>. QED
    BY <2>1, <2>2, PreparesJoined DEF Prepares
<1>4. Amounts(ledger) => Same(ledger, out)
  BY <1>1, <1>2, <1>3, RunNeutral
<1> HIDE DEF out
<1> DEFINE h == Disturbed(0)
           l == Committed(out)
<1>5. /\ DOMAIN h = Calls
      /\ \A d \in Calls : /\ CallOk(pool, h[d]) /\ h[d].pc = call[d].pc
                          /\ call[d].pc = "landed" => h[d] = call[d]
  BY DisturbedFacts
<1>6. /\ {"bal", "made", "sol"} \subseteq DOMAIN l
      /\ Amounts(out) => Amounts(l)
      /\ \A a : Balance(l, a) = Balance(out, a)
      /\ \A v, m : Holding(l, v, m) = Holding(out, v, m)
  BY CommittedFacts
<1>7. call' = h /\ ledger' = l
  BY <1>1
<1> HIDE DEF h, l
<1>8. Settled(pool, ledger, start, h)
  <2>1. \A d \in Calls : /\ call[d].pc = "landed" => h[d] = call[d]
                         /\ call[d].pc # "landed" => h[d].pc # "landed"
    BY <1>5
  <2>. QED
    BY <2>1, SameSettled DEF Inv
<1>9. Settled(pool, l, start, h)
  <2>1. Amounts(ledger) /\ Same(ledger, out)
    BY <1>4, <1>8 DEF Settled, Sound
  <2>2. Amounts(l)
    BY <1>6, <2>1 DEF Same
  <2>3. \A v \in Wallets, m \in MintsOf(pool) : Holding(l, v, m) = Holding(ledger, v, m)
    BY <1>6, <2>1, AtPool DEF Same
  <2>4. /\ Balance(l, Ata(Native, Temp)) = Balance(ledger, Ata(Native, Temp))
        /\ \A m : Balance(l, FeeOf(pool, m)) = Balance(ledger, FeeOf(pool, m))
    BY <1>6, <2>1, AtPool DEF Same
  <2>5. Sound(pool, l, h)
    BY <1>8, <2>2, <2>4 DEF Settled, Sound
  <2>6. Kept(h) => Paid(pool, l, start, h)
    BY <1>8, <2>3 DEF Settled, Paid
  <2>7. \A m \in MintsOf(pool) : Together(l, m) = Together(ledger, m)
    BY <2>1, <2>3, TogetherSame
  <2>8. Whole(pool, l, start, h)
    BY <1>8, <2>7 DEF Settled, Whole
  <2>. QED
    BY <2>5, <2>6, <2>8 DEF Settled
<1>10. Settled(pool', ledger', start', call')
  BY <1>1, <1>7, <1>9
<1>. QED
  BY <1>1, <1>5, <1>6, <1>7, <1>10 DEF Inv

LEMMA InitInv ==
    ASSUME Init
    PROVE  Inv
<1> DEFINE vaults == {TokenVault(TokenA), TokenVault(TokenB)}
           lps    == {Ata(Lp, u) : u \in Users} \cup {Ata(Lp, EscrowOf(u)) : u \in Users}
           fees   == {FeeAccount(TokenA), FeeAccount(TokenB)}
           much   == 2 * MaxCalls * Amount
<1>1. PICK users \in SUBSET Users :
        ledger = [bal  |-> [a \in vaults \cup lps \cup fees \cup OpenedBy(users) |->
                              IF Empty /\ a \in vaults \cup lps THEN 0 ELSE much],
                  made |-> Mints \cup {Pool} \cup {EscrowOf(u) : u \in Users},
                  sol  |-> [w \in Wallets |-> InitSol]]
  BY DEF Init
<1>2. /\ pool \in Pools /\ start = ledger
      /\ call = [c \in Calls |-> [pc |-> "unused"]]
  BY DEF Init
<1>3. /\ {"bal", "made", "sol"} \subseteq DOMAIN ledger
      /\ DOMAIN ledger.bal = vaults \cup lps \cup fees \cup OpenedBy(users)
      /\ \A a \in DOMAIN ledger.bal : ledger.bal[a] = IF Empty /\ a \in vaults \cup lps THEN 0 ELSE much
      /\ ledger.sol = [w \in Wallets |-> InitSol]
  BY <1>1
<1>4. MaxCalls \in Nat /\ Amount \in Nat /\ InitSol \in Nat /\ much \in Nat
  BY WalletConstants
<1>5. Amounts(ledger)
  <2> HIDE DEF vaults, lps, fees, much
  <2>. QED
    BY <1>3, <1>4 DEF Amounts
<1>6. DOMAIN call = Calls /\ \A c \in Calls : call[c].pc = "unused" /\ CallOk(pool, call[c])
  BY <1>2 DEF CallOk
<1>7. ASSUME NEW w \in Wallets, NEW m \in MintsOf(pool)
      PROVE  Holding(ledger, w, m) = Holding(start, w, m) + Total(Share(pool, call, w, m))
  <2> DEFINE f == Share(pool, call, w, m)
  <2>1. \A c \in Calls : f[c] = 0
    BY <1>6 DEF Share
  <2> HIDE DEF f
  <2>2. Total(f) = 0
    BY <2>1, TotalZero
  <2>3. \A a : Balance(ledger, a) \in Int
    BY <1>5, BalanceInt
  <2>4. Holding(ledger, w, m) \in Int
    BY <1>5, <2>3 DEF Holding, Amounts
  <2>5. Holding(ledger, w, m) = Holding(start, w, m) + Total(f)
    BY <1>2, <2>2, <2>4
  <2>. QED
    BY <2>5 DEF f
<1>8. ASSUME Native \in {pool.tokenA, pool.tokenB} PROVE Balance(ledger, Ata(Native, Temp)) = 0
  <2> DEFINE a == Ata(Native, Temp)
  <2>1. Temp \notin Users /\ Native # Lp
    BY <1>2, <1>8, PoolTokens, WalletConstants DEF TokenA, TokenB
  <2>2. a \notin vaults /\ a \notin fees
    BY Addresses
  <2>3. a \notin lps
    BY <2>1, Addresses
  <2>4. a \notin OpenedBy(users)
    BY <2>1, Addresses DEF OpenedBy
  <2> HIDE DEF a, vaults, lps, fees
  <2>5. Balance(ledger, a) = 0
    BY <1>3, <2>2, <2>3, <2>4 DEF Balance
  <2>. QED
    BY <2>5 DEF a
<1>9. ASSUME NEW m \in {pool.tokenA, pool.tokenB}
      PROVE  Balance(ledger, FeeOf(pool, m)) >= Amount * Cardinality(Waiting(call))
  <2> DEFINE a == FeeAccount(m)
             n == Cardinality(Waiting(call))
  <2>1. a = FeeOf(pool, m) /\ a \in fees
    BY AtPool
  <2>2. a \notin vaults /\ a \notin lps
    BY Addresses
  <2> HIDE DEF a, vaults, lps, fees, much
  <2>3. Balance(ledger, a) = much
    BY <1>3, <2>1, <2>2 DEF Balance
  <2>4. n \in Nat /\ n <= MaxCalls
    <3>1. Waiting(call) \subseteq Calls
      BY DEF Waiting
    <3>2. IsFiniteSet(Calls) /\ Cardinality(Calls) = MaxCalls
      BY <1>4, FS_Interval DEF Calls
    <3>3. IsFiniteSet(Waiting(call)) /\ Cardinality(Waiting(call)) <= Cardinality(Calls)
      BY <3>1, <3>2, FS_Subset
    <3>. QED
      BY <3>2, <3>3, FS_CardinalityType
  <2> HIDE DEF n
  <2>5. much >= Amount * n
    <3>1. PICK d \in Nat : MaxCalls = n + d
      <4>1. MaxCalls - n \in Nat /\ MaxCalls = n + (MaxCalls - n)
        BY <1>4, <2>4
      <4>. QED
        BY <4>1
    <3>2. Amount * n \in Nat /\ Amount * d \in Nat
      BY <1>4, <2>4
    <3>3. MaxCalls * Amount = Amount * n + Amount * d
      BY <1>4, <2>4, <3>1
    <3>4. much = MaxCalls * Amount + MaxCalls * Amount
      BY <1>4 DEF much
    <3>. QED
      BY <3>2, <3>3, <3>4
  <2>. QED
    BY <2>1, <2>3, <2>5 DEF n
<1> HIDE DEF vaults, lps, fees, much
<1>10. ASSUME NEW m \in MintsOf(pool)
       PROVE  Together(ledger, m) = Together(start, m) + Total(AllShares(pool, call, m))
  <2> DEFINE f == AllShares(pool, call, m)
  <2>1. \A c \in Calls : f[c] = 0
    BY <1>6 DEF AllShares
  <2> HIDE DEF f
  <2>2. Total(f) = 0
    BY <2>1, TotalZero
  <2>3. Together(ledger, m) \in Int
    BY <1>5, TogetherInt
  <2>4. Together(ledger, m) = Together(start, m) + Total(f)
    BY <1>2, <2>2, <2>3
  <2>. QED
    BY <2>4 DEF f
<1>11. Settled(pool, ledger, start, call)
  <2>1. Sound(pool, ledger, call)
    BY <1>5, <1>8, <1>9 DEF Sound
  <2>2. Paid(pool, ledger, start, call)
    BY <1>7 DEF Paid
  <2>3. Whole(pool, ledger, start, call)
    BY <1>10 DEF Whole
  <2>. QED
    BY <2>1, <2>2, <2>3 DEF Settled
<1>. QED
  BY <1>2, <1>3, <1>5, <1>6, <1>11 DEF Inv

LEMMA NextInv ==
    ASSUME Inv, [Next]_vars
    PROVE  Inv'
<1>1. CASE UNCHANGED vars
  BY <1>1 DEF vars, Inv
<1>2. ASSUME NEW c \in Calls, Build(c) PROVE Inv'
  BY <1>2, BuildInv
<1>3. ASSUME NEW c \in Calls, Land(c) PROVE Inv'
  BY <1>3, LandInv
<1>4. ASSUME NEW w \in Owners, WrapOwn(w) PROVE Inv'
  BY <1>4, WrapInv
<1>. QED
  BY <1>1, <1>2, <1>3, <1>4 DEF Next

LEMMA InvAlways == Spec => []Inv
BY InitInv, NextInv, PTL DEF Spec

-----------------------------------------------------------------------------
(* Which accounts exist                                                    *)

\* From s to t, no account is created or closed, and only those of W change.
Touches(s, t, W) ==
    /\ Fields(t) /\ DOMAIN t.bal = DOMAIN s.bal /\ t.made = s.made
    /\ \A a \in DOMAIN s.bal : t.bal[a] # s.bal[a] => a \in W

\* What a transaction may fail for that finds everything it needs
Fair == {"ok", "funds", "slippage"}

\* From s to t, a transaction has not come to fail for anything else.
Fairly(s, t) == s.res \in Fair => t.res \in Fair

LEMMA TouchesKeeps ==
    ASSUME NEW W, NEW s, NEW t, Touches(s, t, W)
    PROVE  Fields(t) /\ DOMAIN t.bal = DOMAIN s.bal /\ t.made = s.made
BY DEF Touches

LEMMA TouchesTrans ==
    ASSUME NEW W, NEW s, NEW t, NEW u, Touches(s, t, W), Touches(t, u, W)
    PROVE  Touches(s, u, W) /\ (Fairly(s, t) /\ Fairly(t, u) => Fairly(s, u))
BY DEF Touches, Fairly

LEMMA CheckTouches ==
    ASSUME NEW W, NEW s, Fields(s), NEW b, NEW why
    PROVE  LET t == Check(s, b, why)
           IN  Touches(s, t, W) /\ (b \/ why = "slippage" => Fairly(s, t))
<1> DEFINE f == Fail(s, why)
<1>1. Touches(s, f, W) /\ (why = "slippage" => Fairly(s, f))
  BY DEF Touches, Fields, Fail, Fairly, Fair
<1>2. Touches(s, s, W) /\ Fairly(s, s)
  BY DEF Touches, Fairly
<1> HIDE DEF f
<1>3. Check(s, b, why) = IF b THEN s ELSE f
  BY DEF Check, f
<1>. QED
  BY <1>1, <1>2, <1>3

LEMMA FailTouches ==
    ASSUME NEW W, NEW s, Fields(s), NEW why
    PROVE  Touches(s, Fail(s, why), W) /\ (why = "funds" => Fairly(s, Fail(s, why)))
BY DEF Touches, Fields, Fail, Fairly, Fair

LEMMA MoveTouches ==
    ASSUME NEW W, NEW s, Fields(s), NEW f \in W, NEW g \in W, NEW x
    PROVE  LET t == Move(s, f, g, x)
           IN  Touches(s, t, W) /\ ({f, g} \subseteq DOMAIN s.bal => Fairly(s, t))
<1> DEFINE t == Move(s, f, g, x)
           taken == [s.bal EXCEPT ![f] = @ - x]
           b == [taken EXCEPT ![g] = @ + x]
<1>1. CASE ~({f, g} \subseteq DOMAIN s.bal)
  <2>1. t = Fail(s, "missing")
    BY <1>1 DEF Move
  <2>. QED
    BY <1>1, <2>1, FailTouches
<1>2. CASE {f, g} \subseteq DOMAIN s.bal /\ s.bal[f] < x
  <2>1. t = Fail(s, "funds")
    BY <1>2 DEF Move
  <2>. QED
    BY <2>1, FailTouches
<1>3. CASE {f, g} \subseteq DOMAIN s.bal /\ ~(s.bal[f] < x)
  <2>1. t = [s EXCEPT !.bal = b]
    BY <1>3 DEF Move
  <2>2. DOMAIN b = DOMAIN s.bal /\ \A a \in DOMAIN s.bal : b[a] # s.bal[a] => a \in W
    OBVIOUS
  <2> HIDE DEF b, t
  <2>3. Fields(t) /\ t.bal = b /\ t.made = s.made /\ t.res = s.res
    BY <2>1 DEF Fields
  <2>. QED
    BY <2>2, <2>3 DEF Touches, Fairly, t
<1>. QED
  BY <1>1, <1>2, <1>3

LEMMA MintTouches ==
    ASSUME NEW W, NEW s, Fields(s), NEW g \in W, NEW x
    PROVE  LET t == Mint(s, g, x)
           IN  Touches(s, t, W) /\ (g \in DOMAIN s.bal => Fairly(s, t))
<1> DEFINE t == Mint(s, g, x)
           b == [s.bal EXCEPT ![g] = @ + x]
<1>1. CASE g \notin DOMAIN s.bal
  <2>1. t = Fail(s, "missing")
    BY <1>1 DEF Mint
  <2>. QED
    BY <1>1, <2>1, FailTouches
<1>2. CASE g \in DOMAIN s.bal
  <2>1. t = [s EXCEPT !.bal = b]
    BY <1>2 DEF Mint
  <2>2. DOMAIN b = DOMAIN s.bal /\ \A a \in DOMAIN s.bal : b[a] # s.bal[a] => a \in W
    OBVIOUS
  <2> HIDE DEF b, t
  <2>3. Fields(t) /\ t.bal = b /\ t.made = s.made /\ t.res = s.res
    BY <2>1 DEF Fields
  <2>. QED
    BY <2>2, <2>3 DEF Touches, Fairly, t
<1>. QED
  BY <1>1, <1>2

LEMMA BurnTouches ==
    ASSUME NEW W, NEW s, Fields(s), NEW f \in W, NEW x
    PROVE  LET t == Burn(s, f, x)
           IN  Touches(s, t, W) /\ (f \in DOMAIN s.bal => Fairly(s, t))
<1> DEFINE t == Burn(s, f, x)
           b == [s.bal EXCEPT ![f] = @ - x]
<1>1. CASE f \notin DOMAIN s.bal
  <2>1. t = Fail(s, "missing")
    BY <1>1 DEF Burn
  <2>. QED
    BY <1>1, <2>1, FailTouches
<1>2. CASE f \in DOMAIN s.bal /\ s.bal[f] < x
  <2>1. t = Fail(s, "funds")
    BY <1>2 DEF Burn
  <2>. QED
    BY <2>1, FailTouches
<1>3. CASE f \in DOMAIN s.bal /\ ~(s.bal[f] < x)
  <2>1. t = [s EXCEPT !.bal = b]
    BY <1>3 DEF Burn
  <2>2. DOMAIN b = DOMAIN s.bal /\ \A a \in DOMAIN s.bal : b[a] # s.bal[a] => a \in W
    OBVIOUS
  <2> HIDE DEF b, t
  <2>3. Fields(t) /\ t.bal = b /\ t.made = s.made /\ t.res = s.res
    BY <2>1 DEF Fields
  <2>. QED
    BY <2>2, <2>3 DEF Touches, Fairly, t
<1>. QED
  BY <1>1, <1>2, <1>3

\* An instruction that changes only accounts it may change is executed as it is.
LEMMA ProgramTouches ==
    ASSUME NEW s, Fields(s), s.res = "ok", NEW ix, OfProgram(ix),
           NEW W, W \subseteq {ix.acc[r] : r \in Idl[ix.name].writable},
           Touches(s, Program(s, ix), W)
    PROVE  Execute(s, ix) = Program(s, ix)
<1> DEFINE p == Program(s, ix)
<1>1. ix.name \notin {"createAta", "wrap", "close", "createVault", "createMint",
                      "createMetadata", "mintTo", "createFeeVault"}
  BY DEF OfProgram, Idl
<1>2. Execute(s, ix) = RunProgram(s, ix)
  BY <1>1 DEF Execute
<1> HIDE DEF p
<1>3. Changed(s, p) \subseteq W
  BY DEF Changed, Touches, p
<1>4. RunProgram(s, ix) = p
  BY <1>3 DEF RunProgram, Check, p
<1>. QED
  BY <1>2, <1>4 DEF p

\* The wallet with the token account of m that a call names
Named(k, m) == IF k.kind \in {"claim", "claim2"} THEN PaidTo(k, m) ELSE k.owner

\* The token accounts in B and the others in M are all a call needs.
Ready(k, B, M) ==
    /\ {TokenVault(TokenA), TokenVault(TokenB), FeeAccount(TokenA), FeeAccount(TokenB)} \subseteq B
    /\ {Ata(TokenA, Named(k, TokenA)), Ata(TokenB, Named(k, TokenB))} \subseteq B
    /\ {Ata(Lp, k.owner), Ata(Lp, EscrowOf(k.owner))} \subseteq B
    /\ {Pool, EscrowOf(k.owner)} \subseteq M

\* The instruction of the program only touches accounts; with what it needs it may
\* fail for lack of funds and slippage only.
Works(s, t, k) ==
    /\ \E W : Touches(s, t, W)
    /\ Ready(k, DOMAIN s.bal, s.made) => Fairly(s, t)

LEMMA WithVaults ==
    ASSUME NEW own, NEW acc, acc = own ++ WithTokenVaults
    PROVE  /\ \A r \in DOMAIN own : acc[r] = own[r]
           /\ "pool" \notin DOMAIN own => acc.pool = Pool
           /\ "aTokenVault" \notin DOMAIN own => acc.aTokenVault = TokenVault(TokenA)
           /\ "bTokenVault" \notin DOMAIN own => acc.bTokenVault = TokenVault(TokenB)
<1>1. DOMAIN VaultAccounts = PoolVaults \cup {"pool", "tokenProgram"} /\ VaultAccounts.pool = Pool
  BY DEF VaultAccounts, PoolVaults
<1>2. /\ {"pool", "aTokenVault", "bTokenVault"} \subseteq DOMAIN WithTokenVaults
      /\ WithTokenVaults.pool = Pool /\ WithTokenVaults.aTokenVault = TokenVault(TokenA)
      /\ WithTokenVaults.bTokenVault = TokenVault(TokenB)
  BY <1>1 DEF WithTokenVaults, ++
<1>. QED
  BY <1>2 DEF ++

\* Two payments in a row
LEMMA MovesTouch ==
    ASSUME NEW W, NEW s, Fields(s), NEW f \in W, NEW g \in W, NEW x, NEW h \in W, NEW i \in W, NEW y
    PROVE  LET t == Move(Move(s, f, g, x), h, i, y)
           IN  Touches(s, t, W) /\ ({f, g, h, i} \subseteq DOMAIN s.bal => Fairly(s, t))
<1> DEFINE m == Move(s, f, g, x)
           t == Move(m, h, i, y)
<1>1. Touches(s, m, W) /\ ({f, g} \subseteq DOMAIN s.bal => Fairly(s, m))
  BY MoveTouches
<1> HIDE DEF m
<1>2. Touches(m, t, W) /\ ({h, i} \subseteq DOMAIN m.bal => Fairly(m, t))
  BY <1>1, MoveTouches DEF Touches
<1> HIDE DEF t
<1>3. Touches(s, t, W) /\ (Fairly(s, m) /\ Fairly(m, t) => Fairly(s, t))
  BY <1>1, <1>2, TouchesTrans
<1>4. DOMAIN m.bal = DOMAIN s.bal
  BY <1>1 DEF Touches
<1>. QED
  BY <1>1, <1>2, <1>3, <1>4 DEF t, m

LEMMA SwapWorks ==
    ASSUME pool \in Pools, NEW s, Fields(s), s.res = "ok", NEW k, k.kind = "swap",
           k.mint \in {TokenA, TokenB}, NEW ix, SwapInstruction(k) = <<ix>>
    PROVE  Works(s, Execute(s, ix), k)
<1> DEFINE o == k.owner
           dst == IF k.mint = TokenA THEN TokenB ELSE TokenA
           own == [userSourceToken |-> Ata(k.mint, o), userDestinationToken |-> Ata(dst, o),
                   user |-> o, protocolTokenFee |-> FeeAccount(k.mint)]
           acc == own ++ WithTokenVaults
           W == {Ata(k.mint, o), Ata(dst, o), TokenVault(TokenA), TokenVault(TokenB)}
           names == NamesVaults(acc, {k.mint, dst}) /\ acc.protocolTokenFee = DeriveProtocolTokenFee(acc.pool, k.mint)
           c1 == Check(s, acc.pool \in s.made, "missing")
           c2 == Check(c1, names, "constraint")
           ok == Check(c2, s.draw[1] >= ix.min, "slippage")
           t == Move(Move(ok, Ata(k.mint, o), TokenVault(k.mint), ix.amount),
                     TokenVault(dst), Ata(dst, o), s.draw[1])
<1>1. ix.name = "swap" /\ ix.acc = acc
  BY DEF SwapInstruction
<1>2. /\ DOMAIN own = {"userSourceToken", "userDestinationToken", "user", "protocolTokenFee"}
      /\ own.userSourceToken = Ata(k.mint, o) /\ own.userDestinationToken = Ata(dst, o)
      /\ own.protocolTokenFee = FeeAccount(k.mint)
  OBVIOUS
<1> HIDE DEF own
<1>3. /\ acc.userSourceToken = Ata(k.mint, o) /\ acc.userDestinationToken = Ata(dst, o)
      /\ acc.protocolTokenFee = FeeAccount(k.mint) /\ acc.pool = Pool
      /\ acc.aTokenVault = TokenVault(TokenA) /\ acc.bTokenVault = TokenVault(TokenB)
  BY <1>2, WithVaults
<1> HIDE DEF acc
<1>4. names
  BY <1>3 DEF NamesVaults, FeeAccount
<1>5. MintOf(Ata(k.mint, o)) = k.mint /\ MintOf(Ata(dst, o)) = dst
  BY Addresses
<1>6. OfProgram(ix) /\ Program(s, ix) = t
  <2>1. OfProgram(ix) /\ Program(s, ix) = Swap(s, ix)
    BY <1>1 DEF OfProgram, Idl, Program
  <2>2. Swap(s, ix) = t
    BY <1>1, <1>3, <1>5 DEF Swap
  <2>. QED
    BY <2>1, <2>2
<1> HIDE DEF names
<1>7. /\ Ata(k.mint, o) \in W /\ TokenVault(k.mint) \in W /\ TokenVault(dst) \in W /\ Ata(dst, o) \in W
      /\ W = {Ata(k.mint, o), Ata(dst, o), TokenVault(k.mint), TokenVault(dst)}
  OBVIOUS
<1> HIDE DEF W
<1>8. Touches(s, c1, W) /\ (acc.pool \in s.made => Fairly(s, c1))
  BY CheckTouches
<1> HIDE DEF c1
<1>9. Touches(c1, c2, W) /\ Fairly(c1, c2)
  BY <1>4, <1>8, TouchesKeeps, CheckTouches
<1> HIDE DEF c2
<1>10. Touches(c2, ok, W) /\ Fairly(c2, ok)
  BY <1>9, TouchesKeeps, CheckTouches
<1> HIDE DEF ok
<1>11. Touches(ok, t, W) /\ (W \subseteq DOMAIN ok.bal => Fairly(ok, t))
  BY <1>7, <1>10, TouchesKeeps, MovesTouch
<1> HIDE DEF t
<1>12. /\ Touches(s, t, W) /\ DOMAIN ok.bal = DOMAIN s.bal
       /\ (acc.pool \in s.made /\ W \subseteq DOMAIN s.bal => Fairly(s, t))
  BY <1>8, <1>9, <1>10, <1>11, TouchesTrans, TouchesKeeps
<1>13. W \subseteq {ix.acc[r] : r \in Idl[ix.name].writable}
  <2>1. Idl["swap"].writable = SwapIx.writable
    BY DEF Idl
  <2>. QED
    BY <1>1, <1>3, <2>1 DEF SwapIx, TokenVaults, W
<1>14. Execute(s, ix) = t
  BY <1>6, <1>12, <1>13, ProgramTouches
<1>15. Ready(k, DOMAIN s.bal, s.made) => acc.pool \in s.made /\ W \subseteq DOMAIN s.bal
  BY <1>3 DEF Ready, Named, W
<1>. QED
  BY <1>12, <1>14, <1>15 DEF Works

LEMMA BothVaults ==
    ASSUME NEW o
    PROVE  LET acc == BothAccounts(o)
           IN  /\ acc.userAToken = Ata(TokenA, o) /\ acc.userBToken = Ata(TokenB, o)
               /\ acc.userPoolLp = Ata(Lp, o) /\ acc.pool = Pool
               /\ acc.aTokenVault = TokenVault(TokenA) /\ acc.bTokenVault = TokenVault(TokenB)
<1> DEFINE own == [userAToken |-> Ata(TokenA, o), userBToken |-> Ata(TokenB, o),
                   userPoolLp |-> Ata(Lp, o), lpMint |-> Lp, user |-> o]
           acc == own ++ WithTokenVaults
<1>1. BothAccounts(o) = acc
  BY DEF BothAccounts
<1>2. /\ DOMAIN own = {"userAToken", "userBToken", "userPoolLp", "lpMint", "user"}
      /\ own.userAToken = Ata(TokenA, o) /\ own.userBToken = Ata(TokenB, o) /\ own.userPoolLp = Ata(Lp, o)
  OBVIOUS
<1> HIDE DEF own
<1>. QED
  BY <1>1, <1>2, WithVaults

LEMMA DepositWorks ==
    ASSUME NEW s, Fields(s), s.res = "ok", NEW k, k.kind = "deposit", NEW ix,
           ix = [name |-> DepositMethod, a |-> Amount, b |-> Amount, lp |-> Amount,
                 acc |-> BothAccounts(k.owner)]
    PROVE  Works(s, Execute(s, ix), k)
<1> DEFINE o == k.owner
           acc == BothAccounts(o)
           W == {Ata(TokenA, o), Ata(TokenB, o), Ata(Lp, o), TokenVault(TokenA), TokenVault(TokenB)}
           taken == IF ix.name = "addBalanceLiquidity" THEN s.draw ELSE <<ix.a, ix.b>>
           c1 == Check(s, acc.pool \in s.made, "missing")
           ok == Check(c1, taken[1] <= ix.a /\ taken[2] <= ix.b, "slippage")
           m == Move(Move(ok, Ata(TokenA, o), TokenVault(TokenA), taken[1]),
                     Ata(TokenB, o), TokenVault(TokenB), taken[2])
           t == Mint(m, Ata(Lp, o), ix.lp)
<1>1. /\ ix.name \in {"addBalanceLiquidity", "addImbalanceLiquidity", "bootstrapLiquidity"}
      /\ ix.acc = acc
  BY DEF DepositMethod
<1>2. /\ acc.userAToken = Ata(TokenA, o) /\ acc.userBToken = Ata(TokenB, o)
      /\ acc.userPoolLp = Ata(Lp, o) /\ acc.pool = Pool
      /\ acc.aTokenVault = TokenVault(TokenA) /\ acc.bTokenVault = TokenVault(TokenB)
  BY BothVaults
<1> HIDE DEF acc
<1>3. OfProgram(ix) /\ Program(s, ix) = t
  <2>1. OfProgram(ix) /\ Program(s, ix) = AddLiquidity(s, ix)
    BY <1>1 DEF OfProgram, Idl, Program
  <2>2. AddLiquidity(s, ix) = t
    BY <1>1, <1>2 DEF AddLiquidity
  <2>. QED
    BY <2>1, <2>2
<1>4. /\ Ata(TokenA, o) \in W /\ Ata(TokenB, o) \in W /\ Ata(Lp, o) \in W
      /\ TokenVault(TokenA) \in W /\ TokenVault(TokenB) \in W
      /\ {Ata(TokenA, o), TokenVault(TokenA), Ata(TokenB, o), TokenVault(TokenB)} \subseteq W
  OBVIOUS
<1> HIDE DEF W, taken
<1>5. Touches(s, c1, W) /\ (acc.pool \in s.made => Fairly(s, c1))
  BY CheckTouches
<1> HIDE DEF c1
<1>6. Touches(c1, ok, W) /\ Fairly(c1, ok)
  BY <1>5, TouchesKeeps, CheckTouches
<1> HIDE DEF ok
<1>7. Touches(ok, m, W) /\ (W \subseteq DOMAIN ok.bal => Fairly(ok, m))
  BY <1>4, <1>6, TouchesKeeps, MovesTouch
<1> HIDE DEF m
<1>8. Touches(m, t, W) /\ (W \subseteq DOMAIN m.bal => Fairly(m, t))
  BY <1>4, <1>7, TouchesKeeps, MintTouches
<1> HIDE DEF t
<1>9. /\ Touches(s, t, W)
      /\ (acc.pool \in s.made /\ W \subseteq DOMAIN s.bal => Fairly(s, t))
  BY <1>5, <1>6, <1>7, <1>8, TouchesTrans, TouchesKeeps
<1>10. W \subseteq {ix.acc[r] : r \in Idl[ix.name].writable}
  <2>1. Idl[ix.name].writable = BothSides
    <3>1. /\ Idl["addBalanceLiquidity"] = AddBalanceLiquidityIx
          /\ Idl["addImbalanceLiquidity"] = AddImbalanceLiquidityIx
          /\ Idl["bootstrapLiquidity"] = BootstrapLiquidityIx
      BY DEF Idl
    <3>. QED
      BY <1>1, <3>1 DEF AddBalanceLiquidityIx, AddImbalanceLiquidityIx, BootstrapLiquidityIx
  <2>. QED
    BY <1>1, <1>2, <2>1 DEF BothSides, TokenVaults, W
<1>11. Execute(s, ix) = t
  BY <1>3, <1>9, <1>10, ProgramTouches
<1>12. Ready(k, DOMAIN s.bal, s.made) => acc.pool \in s.made /\ W \subseteq DOMAIN s.bal
  BY <1>2 DEF Ready, Named, W
<1>. QED
  BY <1>9, <1>11, <1>12 DEF Works

LEMMA BalancedWorks ==
    ASSUME NEW s, Fields(s), s.res = "ok", NEW k, k.kind = "withdraw", NEW ix,
           ix.name = "removeBalanceLiquidity", ix.acc = BothAccounts(k.owner)
    PROVE  Works(s, Execute(s, ix), k)
<1> DEFINE o == k.owner
           acc == BothAccounts(o)
           W == {Ata(TokenA, o), Ata(TokenB, o), Ata(Lp, o), TokenVault(TokenA), TokenVault(TokenB)}
           c1 == Burn(s, Ata(Lp, o), ix.lp)
           ok == Check(c1, s.draw[1] >= ix.minA /\ s.draw[2] >= ix.minB, "slippage")
           t == Move(Move(ok, TokenVault(TokenA), Ata(TokenA, o), s.draw[1]),
                     TokenVault(TokenB), Ata(TokenB, o), s.draw[2])
<1>1. ix.acc = acc
  OBVIOUS
<1>2. /\ acc.userAToken = Ata(TokenA, o) /\ acc.userBToken = Ata(TokenB, o)
      /\ acc.userPoolLp = Ata(Lp, o) /\ acc.pool = Pool
      /\ acc.aTokenVault = TokenVault(TokenA) /\ acc.bTokenVault = TokenVault(TokenB)
  BY BothVaults
<1> HIDE DEF acc
<1>3. OfProgram(ix) /\ Program(s, ix) = t
  <2>1. OfProgram(ix) /\ Program(s, ix) = RemoveBalanced(s, ix)
    BY DEF OfProgram, Idl, Program
  <2>2. RemoveBalanced(s, ix) = t
    BY <1>1, <1>2 DEF RemoveBalanced
  <2>. QED
    BY <2>1, <2>2
<1>4. /\ Ata(TokenA, o) \in W /\ Ata(TokenB, o) \in W /\ Ata(Lp, o) \in W
      /\ TokenVault(TokenA) \in W /\ TokenVault(TokenB) \in W
      /\ {TokenVault(TokenA), Ata(TokenA, o), TokenVault(TokenB), Ata(TokenB, o)} \subseteq W
  OBVIOUS
<1> HIDE DEF W
<1>5. Touches(s, c1, W) /\ (W \subseteq DOMAIN s.bal => Fairly(s, c1))
  BY <1>4, BurnTouches
<1> HIDE DEF c1
<1>6. Touches(c1, ok, W) /\ Fairly(c1, ok)
  BY <1>5, TouchesKeeps, CheckTouches
<1> HIDE DEF ok
<1>7. Touches(ok, t, W) /\ (W \subseteq DOMAIN ok.bal => Fairly(ok, t))
  BY <1>4, <1>6, TouchesKeeps, MovesTouch
<1> HIDE DEF t
<1>8. Touches(s, t, W) /\ (W \subseteq DOMAIN s.bal => Fairly(s, t))
  BY <1>5, <1>6, <1>7, TouchesTrans, TouchesKeeps
<1>9. W \subseteq {ix.acc[r] : r \in Idl[ix.name].writable}
  <2>1. Idl[ix.name].writable = BothSides
    BY DEF Idl, RemoveBalanceLiquidityIx
  <2>. QED
    BY <1>1, <1>2, <2>1 DEF BothSides, TokenVaults, W
<1>10. Execute(s, ix) = t
  BY <1>3, <1>8, <1>9, ProgramTouches
<1>11. Ready(k, DOMAIN s.bal, s.made) => W \subseteq DOMAIN s.bal
  BY DEF Ready, Named, W
<1>. QED
  BY <1>8, <1>10, <1>11 DEF Works

LEMMA SingleWorks ==
    ASSUME NEW s, Fields(s), s.res = "ok", NEW k, k.kind = "withdraw", Single(k), NEW ix,
           WithdrawInstruction(k) = <<ix>>
    PROVE  Works(s, Execute(s, ix), k)
<1> DEFINE o == k.owner
           mint == IF k.minB = 0 THEN TokenA ELSE TokenB
           own == [userDestinationToken |-> Ata(mint, o), userPoolLp |-> Ata(Lp, o), lpMint |-> Lp, user |-> o]
           acc == own ++ WithTokenVaults
           W == {Ata(mint, o), Ata(Lp, o), TokenVault(mint)}
           c1 == Burn(s, Ata(Lp, o), ix.lp)
           ok == Check(c1, s.draw[1] >= ix.min, "slippage")
           t == Move(ok, TokenVault(mint), Ata(mint, o), s.draw[1])
<1>1. ix.name = "removeLiquiditySingleSide" /\ ix.acc = acc
  BY DEF WithdrawInstruction, Single
<1>2. /\ DOMAIN own = {"userDestinationToken", "userPoolLp", "lpMint", "user"}
      /\ own.userDestinationToken = Ata(mint, o) /\ own.userPoolLp = Ata(Lp, o)
  OBVIOUS
<1> HIDE DEF own
<1>3. /\ acc.userDestinationToken = Ata(mint, o) /\ acc.userPoolLp = Ata(Lp, o)
      /\ acc.aTokenVault = TokenVault(TokenA) /\ acc.bTokenVault = TokenVault(TokenB)
  BY <1>2, WithVaults
<1> HIDE DEF acc
<1>4. MintOf(Ata(mint, o)) = mint
  BY Addresses
<1>5. OfProgram(ix) /\ Program(s, ix) = t
  <2>1. OfProgram(ix) /\ Program(s, ix) = RemoveSingleSide(s, ix)
    BY <1>1 DEF OfProgram, Idl, Program
  <2>2. RemoveSingleSide(s, ix) = t
    BY <1>1, <1>3, <1>4 DEF RemoveSingleSide
  <2>. QED
    BY <2>1, <2>2
<1>6. /\ Ata(mint, o) \in W /\ Ata(Lp, o) \in W /\ TokenVault(mint) \in W
      /\ {TokenVault(mint), Ata(mint, o)} \subseteq W /\ mint \in {TokenA, TokenB}
  OBVIOUS
<1> HIDE DEF W, mint
<1>7. Touches(s, c1, W) /\ (W \subseteq DOMAIN s.bal => Fairly(s, c1))
  BY <1>6, BurnTouches
<1> HIDE DEF c1
<1>8. Touches(c1, ok, W) /\ Fairly(c1, ok)
  BY <1>7, TouchesKeeps, CheckTouches
<1> HIDE DEF ok
<1>9. Touches(ok, t, W) /\ (W \subseteq DOMAIN ok.bal => Fairly(ok, t))
  BY <1>6, <1>8, TouchesKeeps, MoveTouches
<1> HIDE DEF t
<1>10. Touches(s, t, W) /\ (W \subseteq DOMAIN s.bal => Fairly(s, t))
  BY <1>7, <1>8, <1>9, TouchesTrans, TouchesKeeps
<1>11. W \subseteq {ix.acc[r] : r \in Idl[ix.name].writable}
  <2>1. Idl[ix.name].writable = RemoveLiquiditySingleSideIx.writable
    BY <1>1 DEF Idl
  <2>. QED
    BY <1>1, <1>3, <1>6, <2>1 DEF RemoveLiquiditySingleSideIx, TokenVaults, W
<1>12. Execute(s, ix) = t
  BY <1>5, <1>10, <1>11, ProgramTouches
<1>13. Ready(k, DOMAIN s.bal, s.made) => W \subseteq DOMAIN s.bal
  BY <1>6 DEF Ready, Named, W
<1>. QED
  BY <1>10, <1>12, <1>13 DEF Works

LEMMA ClaimWorks ==
    ASSUME NEW s, Fields(s), s.res = "ok", NEW k, k.kind \in {"claim", "claim2"}, NEW ix,
           ix = [name |-> "claimFee", acc |-> ClaimAccounts(k)]
    PROVE  Works(s, Execute(s, ix), k)
<1> DEFINE o == k.owner
           a == Ata(TokenA, PaidTo(k, TokenA))
           b == Ata(TokenB, PaidTo(k, TokenB))
           own == [lockEscrow |-> EscrowOf(o), owner |-> o, lpMint |-> Lp,
                   sourceTokens |-> Ata(Lp, o), escrowVault |-> Ata(Lp, EscrowOf(o)),
                   userAToken |-> a, userBToken |-> b]
           acc == own ++ WithTokenVaults
           W == {a, b, TokenVault(TokenA), TokenVault(TokenB)}
           there == acc.lockEscrow \in s.made /\ {acc.sourceTokens, acc.escrowVault} \subseteq DOMAIN s.bal
           ok == Check(s, there, "missing")
           t == Move(Move(ok, TokenVault(TokenA), a, s.draw[1]), TokenVault(TokenB), b, s.draw[2])
<1>1. ix.name = "claimFee" /\ ix.acc = acc
  BY DEF ClaimAccounts
<1>2. /\ DOMAIN own = {"lockEscrow", "owner", "lpMint", "sourceTokens", "escrowVault", "userAToken",
                       "userBToken"}
      /\ own.lockEscrow = EscrowOf(o) /\ own.sourceTokens = Ata(Lp, o)
      /\ own.escrowVault = Ata(Lp, EscrowOf(o)) /\ own.userAToken = a /\ own.userBToken = b
  OBVIOUS
<1> HIDE DEF own
<1>3. /\ acc.lockEscrow = EscrowOf(o) /\ acc.sourceTokens = Ata(Lp, o)
      /\ acc.escrowVault = Ata(Lp, EscrowOf(o)) /\ acc.userAToken = a /\ acc.userBToken = b
      /\ acc.aTokenVault = TokenVault(TokenA) /\ acc.bTokenVault = TokenVault(TokenB)
  BY <1>2, WithVaults
<1> HIDE DEF acc, a, b
<1>4. OfProgram(ix) /\ Program(s, ix) = t
  <2>1. OfProgram(ix) /\ Program(s, ix) = ClaimFee(s, ix)
    BY <1>1 DEF OfProgram, Idl, Program
  <2>2. ClaimFee(s, ix) = t
    BY <1>1, <1>3 DEF ClaimFee
  <2>. QED
    BY <2>1, <2>2
<1>5. /\ a \in W /\ b \in W /\ TokenVault(TokenA) \in W /\ TokenVault(TokenB) \in W
      /\ {TokenVault(TokenA), a, TokenVault(TokenB), b} \subseteq W
  OBVIOUS
<1> HIDE DEF W, there
<1>6. Touches(s, ok, W) /\ (there => Fairly(s, ok))
  BY CheckTouches
<1> HIDE DEF ok
<1>7. Touches(ok, t, W) /\ (W \subseteq DOMAIN ok.bal => Fairly(ok, t))
  BY <1>5, <1>6, TouchesKeeps, MovesTouch
<1> HIDE DEF t
<1>8. Touches(s, t, W) /\ (there /\ W \subseteq DOMAIN s.bal => Fairly(s, t))
  BY <1>6, <1>7, TouchesTrans, TouchesKeeps
<1>9. W \subseteq {ix.acc[r] : r \in Idl[ix.name].writable}
  <2>1. Idl[ix.name].writable = ClaimFeeIx.writable
    BY <1>1 DEF Idl
  <2>. QED
    BY <1>1, <1>3, <2>1 DEF ClaimFeeIx, TokenVaults, W
<1>10. Execute(s, ix) = t
  BY <1>4, <1>8, <1>9, ProgramTouches
<1>11. Ready(k, DOMAIN s.bal, s.made) => there /\ W \subseteq DOMAIN s.bal
  BY <1>3 DEF Ready, Named, W, there, a, b
<1>. QED
  BY <1>8, <1>10, <1>11 DEF Works

LEMMA PartnerWorks ==
    ASSUME NEW s, Fields(s), s.res = "ok", NEW k, k.kind = "partner", NEW ix, IsMain(k, ix)
    PROVE  Works(s, Execute(s, ix), k)
<1> DEFINE o == k.owner
           acc == ix.acc
           W == {Ata(TokenA, o), Ata(TokenB, o), FeeAccount(TokenA), FeeAccount(TokenB)}
           x == Min({ix.a, s.bal[FeeAccount(TokenA)]})
           y == Min({ix.b, s.bal[FeeAccount(TokenB)]})
           t == Move(Move(s, FeeAccount(TokenA), Ata(TokenA, o), x), FeeAccount(TokenB), Ata(TokenB, o), y)
<1>1. /\ ix.name = "partnerClaimFee"
      /\ acc.protocolTokenAFee = FeeAccount(TokenA) /\ acc.protocolTokenBFee = FeeAccount(TokenB)
      /\ acc.partnerTokenA = Ata(TokenA, o) /\ acc.partnerTokenB = Ata(TokenB, o)
  BY DEF IsMain
<1>2. OfProgram(ix) /\ Program(s, ix) = t
  <2>1. OfProgram(ix) /\ Program(s, ix) = PartnerClaim(s, ix)
    BY <1>1 DEF OfProgram, Idl, Program
  <2>2. PartnerClaim(s, ix) = t
    BY <1>1 DEF PartnerClaim
  <2>. QED
    BY <2>1, <2>2
<1>3. /\ Ata(TokenA, o) \in W /\ Ata(TokenB, o) \in W /\ FeeAccount(TokenA) \in W /\ FeeAccount(TokenB) \in W
      /\ {FeeAccount(TokenA), Ata(TokenA, o), FeeAccount(TokenB), Ata(TokenB, o)} \subseteq W
  OBVIOUS
<1> HIDE DEF W, x, y
<1>4. Touches(s, t, W) /\ (W \subseteq DOMAIN s.bal => Fairly(s, t))
  BY <1>3, MovesTouch
<1> HIDE DEF t
<1>5. W \subseteq {ix.acc[r] : r \in Idl[ix.name].writable}
  <2>1. Idl[ix.name].writable = PartnerClaimFeeIx.writable
    BY <1>1 DEF Idl
  <2>. QED
    BY <1>1, <2>1 DEF PartnerClaimFeeIx, W
<1>6. Execute(s, ix) = t
  BY <1>2, <1>4, <1>5, ProgramTouches
<1>7. Ready(k, DOMAIN s.bal, s.made) => W \subseteq DOMAIN s.bal
  BY DEF Ready, Named, W
<1>. QED
  BY <1>4, <1>6, <1>7 DEF Works

LEMMA MainWorks ==
    ASSUME pool \in Pools, NEW s, Fields(s), s.res = "ok", NEW k, Asked(k), NEW ix, IsMain(k, ix)
    PROVE  Works(s, Execute(s, ix), k)
<1>1. CASE k.kind = "swap"
  BY <1>1, SwapWorks DEF IsMain, Asked
<1>2. CASE k.kind = "deposit"
  BY <1>2, DepositWorks DEF IsMain
<1>3. CASE k.kind = "withdraw"
  <2>1. WithdrawInstruction(k) = <<ix>>
    BY <1>3 DEF IsMain
  <2>2. CASE Single(k)
    BY <1>3, <2>1, <2>2, SingleWorks
  <2>3. CASE ~Single(k)
    <3>1. ix.name = "removeBalanceLiquidity" /\ ix.acc = BothAccounts(k.owner)
      BY <2>1, <2>3 DEF WithdrawInstruction, Single
    <3>. QED
      BY <1>3, <3>1, BalancedWorks
  <2>. QED
    BY <2>2, <2>3
<1>4. CASE k.kind \in {"claim", "claim2"}
  BY <1>4, ClaimWorks DEF IsMain
<1>5. CASE k.kind = "partner"
  BY <1>5, PartnerWorks
<1>. QED
  BY <1>1, <1>2, <1>3, <1>4, <1>5 DEF Asked

-----------------------------------------------------------------------------
(* Transactions that find what they need                                   *)

\* If a transaction has not failed, the token accounts in C and the others in M exist.
Reaches(t, C, M) ==
    /\ Fields(t) /\ t.res \in Fair
    /\ t.res = "ok" => DOMAIN t.bal = C /\ t.made = M

\* An instruction leads from the token accounts in B to those in C.
Takes(ix, B, M, C) ==
    \A s : Fields(s) /\ s.res = "ok" /\ DOMAIN s.bal = B /\ s.made = M => Reaches(Execute(s, ix), C, M)

\* And so do instructions one after the other.
Goes(ixs, B, M, C) ==
    /\ ixs \in Seq(ToSet(ixs))
    /\ \A s, draw : {"bal", "made", "sol"} \subseteq DOMAIN s /\ DOMAIN s.bal = B /\ s.made = M =>
                      Reaches(Run(s, ixs, draw), C, M)

LEMMA GoesNothing ==
    ASSUME NEW B, NEW M
    PROVE  Goes(<<>>, B, M, B)
<1>1. ASSUME NEW s, NEW draw, {"bal", "made", "sol"} \subseteq DOMAIN s, DOMAIN s.bal = B, s.made = M
      PROVE  Reaches(Run(s, <<>>, draw), B, M)
  <2> DEFINE b == Begin(s, draw)
             none == <<>>
  <2>1. Len(none) \in Nat /\ Len(none) = 0
    OBVIOUS
  <2>2. Fields(b) /\ b.res = "ok" /\ DOMAIN b.bal = B /\ b.made = M
    BY <1>1 DEF Begin, ++, Fields
  <2> HIDE DEF b, none
  <2>3. PICK g : Trace(g, s, none, draw)
    BY <2>1, RunSteps
  <2>4. Run(s, none, draw) = b
    BY <2>1, <2>3 DEF Trace, b
  <2>5. Reaches(Run(s, none, draw), B, M)
    BY <2>2, <2>4 DEF Reaches, Fair
  <2>. QED
    BY <2>5 DEF none
<1>. QED
  BY <1>1, Nothing DEF Goes

LEMMA GoesOn ==
    ASSUME NEW B, NEW M, NEW C, NEW D, NEW p, Goes(p, B, M, C), NEW x, Takes(x, C, M, D)
    PROVE  Goes(p \o <<x>>, B, M, D)
<1> DEFINE both == p \o <<x>>
<1>1. p \in Seq(ToSet(p))
  BY DEF Goes
<1>2. both \in Seq(ToSet(both))
  BY <1>1, Joined, One
<1>3. ASSUME NEW s, NEW draw, {"bal", "made", "sol"} \subseteq DOMAIN s, DOMAIN s.bal = B, s.made = M
      PROVE  Reaches(Run(s, both, draw), D, M)
  <2> DEFINE t == Run(s, p, draw)
  <2>1. Run(s, both, draw) = Execute(t, x)
    BY <1>1, RunAppend
  <2>2. Reaches(t, C, M)
    BY <1>3 DEF Goes
  <2> HIDE DEF t, both
  <2>3. CASE t.res # "ok"
    <3>1. Execute(t, x) = t
      BY <2>3 DEF Execute
    <3>. QED
      BY <2>1, <2>2, <2>3, <3>1 DEF Reaches
  <2>4. CASE t.res = "ok"
    BY <2>1, <2>2, <2>4 DEF Reaches, Takes
  <2>. QED
    BY <2>3, <2>4
<1> HIDE DEF both
<1>4. Goes(both, B, M, D)
  BY <1>2, <1>3 DEF Goes
<1>. QED
  BY <1>4 DEF both

LEMMA GoesNone ==
    ASSUME NEW B, NEW M, NEW C, NEW p, Goes(p, B, M, C)
    PROVE  Goes(p \o <<>>, B, M, C) /\ <<>> \o p = p
<1>1. p \o <<>> = p /\ <<>> \o p = p
  BY DEF Goes
<1>. QED
  BY <1>1

\* The token account that was looked up exists if it was found, and is created if not.
LEMMA GoesAta ==
    ASSUME NEW B, NEW M, NEW C, NEW p, Goes(p, B, M, C),
           NEW seen, NEW m \in M, NEW o, NEW payer, Ata(m, o) \in seen <=> Ata(m, o) \in C
    PROVE  Goes(p \o GetOrCreateATA(seen, m, o, payer), B, M, C \cup {Ata(m, o)})
<1> DEFINE a == Ata(m, o)
           ix == [name |-> "createAta", account |-> a, signers |-> {payer}]
           q == GetOrCreateATA(seen, m, o, payer)
<1>1. CASE a \in seen
  <2>1. q = <<>> /\ C \cup {a} = C
    BY <1>1 DEF GetOrCreateATA
  <2> HIDE DEF a, q
  <2>2. Goes(p \o q, B, M, C \cup {a})
    BY <2>1, GoesNone
  <2>. QED
    BY <2>2 DEF a, q
<1>2. CASE a \notin seen
  <2>1. q = <<ix>> /\ a \notin C
    BY <1>2 DEF GetOrCreateATA
  <2>2. ix.name = "createAta" /\ ix.account = a
    OBVIOUS
  <2>3. MintOf(a) = m
    BY Addresses
  <2> HIDE DEF a, q, ix
  <2>4. ASSUME NEW s, Fields(s), s.res = "ok", DOMAIN s.bal = C, s.made = M
        PROVE  Reaches(Execute(s, ix), C \cup {a}, M)
    <3> DEFINE t == Execute(s, ix)
               b == [x \in {a} |-> 0] ++ s.bal
    <3>1. ~OfProgram(ix)
      BY <2>2 DEF OfProgram, Idl
    <3>2. t = Open(Check(s, MintOf(a) \in s.made, "missing"), a)
      BY <2>2, <2>4, <3>1 DEF Execute
    <3>3. t = [s EXCEPT !.bal = b]
      BY <2>1, <2>3, <2>4, <3>2 DEF Open, Check
    <3>4. DOMAIN b = C \cup {a}
      BY <2>4 DEF ++
    <3> HIDE DEF b, t
    <3>5. Fields(t) /\ t.bal = b /\ t.made = M /\ t.res = "ok"
      BY <2>4, <3>3 DEF Fields
    <3>6. Reaches(t, C \cup {a}, M)
      BY <3>4, <3>5 DEF Reaches, Fair
    <3>. QED
      BY <3>6 DEF t
  <2>5. Takes(ix, C, M, C \cup {a})
    BY <2>4 DEF Takes
  <2>6. Goes(p \o q, B, M, C \cup {a})
    BY <2>1, <2>5, GoesOn
  <2>. QED
    BY <2>6 DEF a, q
<1>. QED
  BY <1>1, <1>2

\* Wrapping needs the wrapped SOL account.
LEMMA GoesWrap ==
    ASSUME NEW B, NEW M, NEW C, NEW p, Goes(p, B, M, C), NEW m, NEW o, NEW x, Ata(m, o) \in C
    PROVE  Goes(p \o WrapSOL(m, o, x), B, M, C)
<1> DEFINE a == Ata(Native, o)
           ix == [name |-> "wrap", from |-> o, to |-> a, amount |-> x, signers |-> {o}]
           q == WrapSOL(m, o, x)
<1>1. CASE m # Native
  <2>1. q = <<>>
    BY <1>1 DEF WrapSOL
  <2> HIDE DEF q
  <2>2. Goes(p \o q, B, M, C)
    BY <2>1, GoesNone
  <2>. QED
    BY <2>2 DEF q
<1>2. CASE m = Native
  <2>1. q = <<ix>> /\ a \in C
    BY <1>2 DEF WrapSOL
  <2>2. ix.name = "wrap" /\ ix.from = o /\ ix.to = a /\ ix.amount = x
    OBVIOUS
  <2> HIDE DEF a, q, ix
  <2>3. ASSUME NEW s, Fields(s), s.res = "ok", DOMAIN s.bal = C, s.made = M
        PROVE  Reaches(Execute(s, ix), C, M)
    <3> DEFINE t == Execute(s, ix)
               n == Mint(s, a, x)
    <3>1. ~OfProgram(ix)
      BY <2>2 DEF OfProgram, Idl
    <3>2. t = Wrap(s, o, a, x)
      BY <2>2, <2>3, <3>1 DEF Execute
    <3>3. Touches(s, n, {a}) /\ Fairly(s, n)
      BY <2>1, <2>3, MintTouches
    <3> HIDE DEF t
    <3>4. CASE s.sol[o] < x
      <4>1. t = Fail(s, "funds")
        BY <3>2, <3>4 DEF Wrap
      <4>2. Touches(s, t, {a}) /\ Fairly(s, t)
        BY <2>3, <4>1, FailTouches
      <4>. QED
        BY <2>3, <4>2 DEF Touches, Fairly, Fair, Reaches, t
    <3>5. CASE ~(s.sol[o] < x)
      <4>1. t = [n EXCEPT !.sol[o] = @ - x]
        BY <3>2, <3>5 DEF Wrap
      <4> HIDE DEF n
      <4>2. Fields(n) /\ n.res \in Fair /\ DOMAIN n.bal = C /\ n.made = M
        BY <2>3, <3>3 DEF Touches, Fairly, Fair
      <4>3. Fields(t) /\ t.bal = n.bal /\ t.made = n.made /\ t.res = n.res
        BY <4>1, <4>2 DEF Fields
      <4>4. Reaches(t, C, M)
        BY <4>2, <4>3 DEF Reaches
      <4>. QED
        BY <4>4 DEF t
    <3>. QED
      BY <3>4, <3>5
  <2>4. Takes(ix, C, M, C)
    BY <2>3 DEF Takes
  <2>5. Goes(p \o q, B, M, C)
    BY <2>1, <2>4, GoesOn
  <2>. QED
    BY <2>5 DEF q
<1>. QED
  BY <1>1, <1>2

\* A wrapped SOL account can be closed if it exists.
LEMMA GoesUnwrap ==
    ASSUME NEW B, NEW M, NEW C, NEW p, Goes(p, B, M, C), NEW o, NEW r, Ata(Native, o) \in C
    PROVE  Goes(p \o UnwrapSOL(o, r), B, M, C \ {Ata(Native, o)})
<1> DEFINE a == Ata(Native, o)
           ix == [name |-> "close", account |-> a, receiver |-> r, signers |-> {o}]
           q == UnwrapSOL(o, r)
<1>1. q = <<ix>>
  BY DEF UnwrapSOL
<1>2. ix.name = "close" /\ ix.account = a /\ ix.receiver = r
  OBVIOUS
<1>3. MintOf(a) = Native /\ a \in C
  BY Addresses
<1> HIDE DEF a, q, ix
<1>4. ASSUME NEW s, Fields(s), s.res = "ok", DOMAIN s.bal = C, s.made = M
      PROVE  Reaches(Execute(s, ix), C \ {a}, M)
  <2> DEFINE t == Execute(s, ix)
             b == Restrict(s.bal, DOMAIN s.bal \ {a})
  <2>1. ~OfProgram(ix)
    BY <1>2 DEF OfProgram, Idl
  <2>2. t = Close(s, a, r)
    BY <1>2, <1>4, <2>1 DEF Execute
  <2>3. DOMAIN b = C \ {a}
    BY <1>4 DEF Restrict
  <2> HIDE DEF b
  <2>4. t = [s EXCEPT !.bal = b, !.sol[r] = @ + s.bal[a]]
    BY <1>3, <1>4, <2>2 DEF Close, b
  <2> HIDE DEF t
  <2>5. Fields(t) /\ t.bal = b /\ t.made = M /\ t.res = "ok"
    BY <1>4, <2>4 DEF Fields
  <2>6. Reaches(t, C \ {a}, M)
    BY <2>3, <2>5 DEF Reaches, Fair
  <2>. QED
    BY <2>6 DEF t
<1>5. Takes(ix, C, M, C \ {a})
  BY <1>4 DEF Takes
<1>6. Goes(p \o q, B, M, C \ {a})
  BY <1>1, <1>3, <1>5, GoesOn
<1>. QED
  BY <1>6 DEF a, q

\* The instruction of the program
LEMMA GoesMain ==
    ASSUME pool \in Pools, NEW B, NEW M, NEW C, NEW p, Goes(p, B, M, C),
           NEW k, Asked(k), NEW ix, IsMain(k, ix), Ready(k, C, M)
    PROVE  Goes(p \o <<ix>>, B, M, C)
<1>1. ASSUME NEW s, Fields(s), s.res = "ok", DOMAIN s.bal = C, s.made = M
      PROVE  Reaches(Execute(s, ix), C, M)
  <2> DEFINE t == Execute(s, ix)
  <2>1. Works(s, t, k)
    BY <1>1, MainWorks
  <2> HIDE DEF t
  <2>2. PICK W : Touches(s, t, W)
    BY <2>1 DEF Works
  <2>3. Fairly(s, t)
    BY <1>1, <2>1 DEF Works
  <2>4. Reaches(t, C, M)
    BY <1>1, <2>2, <2>3 DEF Touches, Fairly, Reaches, Fair
  <2>. QED
    BY <2>4 DEF t
<1>2. Takes(ix, C, M, C)
  BY <1>1 DEF Takes
<1>. QED
  BY <1>2, GoesOn

\* What no transaction closes: accounts of the pool, LP accounts, and escrows.
Standing(p, B, M) ==
    LET lp == LpMint(PoolAddress(p))
    IN  /\ {TokenVault(p.tokenA), TokenVault(p.tokenB), FeeOf(p, p.tokenA), FeeOf(p, p.tokenB)} \subseteq B
        /\ {PoolAddress(p), p.tokenA, p.tokenB, lp} \subseteq M
        /\ \A u \in Users : LET e == DeriveLockEscrowPda(PoolAddress(p), u)
                            IN  {Ata(lp, u), Ata(lp, e)} \subseteq B /\ e \in M

\* The token accounts that a call looks up
LooksUp(p) ==
    {Ata(m, w) : m \in MintsOf(p), w \in Wallets}
      \cup {Ata(LpMint(PoolAddress(p)), DeriveLockEscrowPda(PoolAddress(p), u)) : u \in Users}

LEMMA AtStanding ==
    ASSUME NEW B, NEW M
    PROVE  /\ LookedUp = LooksUp(pool)
           /\ Standing(pool, B, M) <=>
                /\ {TokenVault(TokenA), TokenVault(TokenB), FeeAccount(TokenA), FeeAccount(TokenB)} \subseteq B
                /\ {Pool, TokenA, TokenB, Lp} \subseteq M
                /\ \A u \in Users : {Ata(Lp, u), Ata(Lp, EscrowOf(u))} \subseteq B /\ EscrowOf(u) \in M
<1>1. /\ Mints = MintsOf(pool) /\ TokenA = pool.tokenA /\ TokenB = pool.tokenB
      /\ Pool = PoolAddress(pool) /\ Lp = LpMint(PoolAddress(pool))
  BY DEF Mints, MintsOf, TokenA, TokenB, Lp, Pool, PoolAddress
<1>2. \A u : EscrowOf(u) = DeriveLockEscrowPda(PoolAddress(pool), u)
  BY <1>1 DEF EscrowOf
<1>3. \A m : FeeAccount(m) = FeeOf(pool, m)
  BY AtPool
<1>4. LookedUp = LooksUp(pool)
  BY <1>1, <1>2 DEF LookedUp, LooksUp
<1>. QED
  BY <1>1, <1>2, <1>3, <1>4 DEF Standing

\* A call that knows which of the token accounts in B exist
Knows(k, B, M) ==
    /\ k.seen = LookedUp \cap B
    /\ Standing(pool, B, M)
    /\ k.kind = "swap" => k.other \in Users

LEMMA KnowsSeen ==
    ASSUME NEW k, NEW B, NEW M, Knows(k, B, M)
    PROVE  /\ \A m \in Mints, w \in Wallets : Ata(m, w) \in k.seen <=> Ata(m, w) \in B
           /\ \A u \in Users : {Ata(Lp, u), Ata(Lp, EscrowOf(u))} \subseteq k.seen \cap B
           /\ Mints \subseteq M
<1>1. /\ k.seen = LookedUp \cap B
      /\ {Pool, TokenA, TokenB, Lp} \subseteq M
      /\ \A u \in Users : {Ata(Lp, u), Ata(Lp, EscrowOf(u))} \subseteq B
  BY AtStanding DEF Knows
<1>2. /\ \A m \in Mints, w \in Wallets : Ata(m, w) \in LookedUp
      /\ \A u \in Users : Ata(Lp, EscrowOf(u)) \in LookedUp
  BY DEF LookedUp
<1>3. Lp \in Mints /\ Users \subseteq Wallets
  BY DEF Mints, Wallets
<1>. QED
  BY <1>1, <1>2, <1>3 DEF Mints

LEMMA KnowsReady ==
    ASSUME NEW k, Asked(k), NEW B, NEW M, Knows(k, B, M), NEW C, B \subseteq C,
           {Ata(TokenA, Named(k, TokenA)), Ata(TokenB, Named(k, TokenB))} \subseteq C
    PROVE  Ready(k, C, M)
BY AtStanding DEF Knows, Ready, Asked

LEMMA SwapGoes ==
    ASSUME pool \in Pools, NEW k, Asked(k), k.kind = "swap", NEW B, NEW M, Knows(k, B, M)
    PROVE  \E C : Goes(Tx(k), B, M, C)
<1> DEFINE o == k.owner
           dst == IF k.mint = TokenA THEN TokenB ELSE TokenA
           q1 == GetOrCreateATA(k.seen, k.mint, o, o)
           q2 == GetOrCreateATA(k.seen, dst, o, o)
           q3 == WrapSOL(k.mint, o, Amount)
           q4 == IF k.other = o THEN <<>> ELSE GetOrCreateATA(k.seen, k.mint, k.other, o)
           q6 == IF dst = Native THEN UnwrapSOL(o, o) ELSE <<>>
           C1 == B \cup {Ata(k.mint, o)}
           C2 == C1 \cup {Ata(dst, o)}
           C4 == C2 \cup {Ata(k.mint, k.other)}
<1>1. PICK main : SwapInstruction(k) = <<main>>
  BY DEF SwapInstruction
<1>2. Tx(k) = ((((q1 \o q2) \o q3) \o q4) \o <<main>>) \o q6
  <2>1. Tx(k) = SwapTx(k)
    BY DEF Tx
  <2>2. CreateATAPre(k, <<k.mint, dst>>) = q1 \o q2
    BY CreateTwo
  <2>. QED
    BY <1>1, <2>1, <2>2 DEF SwapTx
<1>3. /\ o \in Wallets /\ k.other \in Wallets /\ k.mint \in Mints /\ dst \in Mints /\ k.mint # dst
      /\ k.mint \in {TokenA, TokenB} /\ dst \in {TokenA, TokenB}
  BY PoolTokens DEF Asked, Knows, Wallets, Mints
<1>4. IsMain(k, main)
  BY <1>1 DEF IsMain
<1>5. /\ \A m \in Mints, w \in Wallets : Ata(m, w) \in k.seen <=> Ata(m, w) \in B
      /\ Mints \subseteq M
  BY KnowsSeen
<1>6. TokenA \in {k.mint, dst} /\ TokenB \in {k.mint, dst}
  BY <1>3
<1> HIDE DEF dst, o
<1>7. Goes(<<>> \o q1, B, M, C1)
  BY <1>3, <1>5, GoesNothing, GoesAta
<1>8. Goes(q1, B, M, C1)
  <2> HIDE DEF C1
  <2>1. q1 \in Seq(ToSet(q1))
    BY <1>3, AtaPrepares DEF Prepares, AllNeutral
  <2>2. <<>> \o q1 = q1
    BY <2>1
  <2>. QED
    BY <1>7, <2>2
<1> HIDE DEF q1
<1>9. Ata(dst, o) \in k.seen <=> Ata(dst, o) \in C1
  BY <1>3, <1>5, Addresses
<1>10. Goes(q1 \o q2, B, M, C2)
  <2> HIDE DEF C1
  <2>. QED
    BY <1>3, <1>5, <1>8, <1>9, GoesAta
<1> HIDE DEF q2
<1>11. Goes((q1 \o q2) \o q3, B, M, C2)
  <2>1. Ata(k.mint, o) \in C2
    OBVIOUS
  <2> HIDE DEF C2
  <2>. QED
    BY <1>10, <2>1, GoesWrap
<1> HIDE DEF q3
<1> DEFINE p3 == (q1 \o q2) \o q3
<1> HIDE DEF p3
<1>12. Goes(p3, B, M, C2)
  BY <1>11 DEF p3
<1>13. Goes(p3 \o q4, B, M, C4)
  <2>1. CASE k.other = o
    <3>1. q4 = <<>> /\ C4 = C2
      BY <2>1
    <3> HIDE DEF q4, C4, C2
    <3>. QED
      BY <1>12, <3>1, GoesNone
  <2>2. CASE k.other # o
    <3>1. Ata(k.mint, k.other) \in k.seen <=> Ata(k.mint, k.other) \in C2
      BY <1>3, <1>5, <2>2, Addresses
    <3>2. q4 = GetOrCreateATA(k.seen, k.mint, k.other, o)
      BY <2>2
    <3> HIDE DEF q4, C2
    <3>. QED
      BY <1>3, <1>5, <1>12, <3>1, <3>2, GoesAta
  <2>. QED
    BY <2>1, <2>2
<1>14. Ready(k, C4, M)
  <2>1. B \subseteq C4 /\ Ata(TokenA, o) \in C4 /\ Ata(TokenB, o) \in C4
    BY <1>6
  <2>2. Named(k, TokenA) = o /\ Named(k, TokenB) = o
    BY DEF Named, o
  <2> HIDE DEF C4
  <2>. QED
    BY <2>1, <2>2, KnowsReady
<1>15. dst = Native => Ata(Native, o) \in C4
  OBVIOUS
<1> HIDE DEF C4, q4
<1> DEFINE p4 == p3 \o q4
<1> HIDE DEF p4
<1>16. Goes(p4 \o <<main>>, B, M, C4)
  BY <1>4, <1>13, <1>14, GoesMain DEF p4
<1> DEFINE p5 == p4 \o <<main>>
<1> HIDE DEF p5
<1>17. \E C : Goes(p5 \o q6, B, M, C)
  <2>1. Goes(p5, B, M, C4)
    BY <1>16 DEF p5
  <2>2. CASE dst = Native
    <3>1. q6 = UnwrapSOL(o, o)
      BY <2>2
    <3> HIDE DEF q6
    <3>. QED
      BY <1>15, <2>1, <2>2, <3>1, GoesUnwrap
  <2>3. CASE dst # Native
    <3>1. q6 = <<>>
      BY <2>3
    <3> HIDE DEF q6
    <3>. QED
      BY <2>1, <3>1, GoesNone
  <2>. QED
    BY <2>2, <2>3
<1> HIDE DEF q6
<1>. QED
  BY <1>2, <1>17 DEF p5, p4, p3

\* The token accounts of two wallets for the tokens of the pool
Both(B, a, b) == (B \cup {Ata(TokenA, a)}) \cup {Ata(TokenB, b)}

LEMMA GoesBoth ==
    ASSUME pool \in Pools, NEW k, NEW B, NEW M, Knows(k, B, M),
           NEW a \in Wallets, NEW b \in Wallets, NEW payer
    PROVE  Goes(GetOrCreateATA(k.seen, TokenA, a, payer) \o GetOrCreateATA(k.seen, TokenB, b, payer),
                B, M, Both(B, a, b))
<1> DEFINE q1 == GetOrCreateATA(k.seen, TokenA, a, payer)
           q2 == GetOrCreateATA(k.seen, TokenB, b, payer)
           C1 == B \cup {Ata(TokenA, a)}
           C2 == C1 \cup {Ata(TokenB, b)}
<1>1. /\ \A m \in Mints, w \in Wallets : Ata(m, w) \in k.seen <=> Ata(m, w) \in B
      /\ Mints \subseteq M
  BY KnowsSeen
<1>2. TokenA \in Mints /\ TokenB \in Mints /\ TokenA # TokenB
  BY PoolTokens DEF Mints
<1>3. Goes(<<>> \o q1, B, M, C1)
  BY <1>1, <1>2, GoesNothing, GoesAta
<1>4. Goes(q1, B, M, C1)
  <2> HIDE DEF C1
  <2>1. q1 \in Seq(ToSet(q1))
    BY AtaPrepares DEF Prepares, AllNeutral
  <2>2. <<>> \o q1 = q1
    BY <2>1
  <2>. QED
    BY <1>3, <2>2
<1> HIDE DEF q1
<1>5. Ata(TokenB, b) \in k.seen <=> Ata(TokenB, b) \in C1
  BY <1>1, <1>2, Addresses
<1>6. Goes(q1 \o q2, B, M, C2)
  <2> HIDE DEF C1
  <2>. QED
    BY <1>1, <1>2, <1>4, <1>5, GoesAta
<1>. QED
  BY <1>6 DEF Both, q1

\* The token account for LP is there.
LEMMA KnownLp ==
    ASSUME NEW k, NEW B, NEW M, Knows(k, B, M), NEW u \in Users, NEW payer
    PROVE  /\ GetOrCreateATA(k.seen, Lp, u, payer) = <<>>
           /\ GetOrCreateATA(k.seen, Lp, EscrowOf(u), payer) = <<>>
BY KnowsSeen DEF GetOrCreateATA

\* With the token accounts of the user, the program's instruction may follow, and
\* wrapped SOL may be unwrapped in the end.
LEMMA BothReady ==
    ASSUME NEW k, Asked(k), NEW B, NEW M, Knows(k, B, M)
    PROVE  /\ Ready(k, Both(B, Named(k, TokenA), Named(k, TokenB)), M)
           /\ \A o : IsNativePool /\ Named(k, TokenA) = o /\ Named(k, TokenB) = o =>
                       Ata(Native, o) \in Both(B, o, o)
<1> DEFINE C == Both(B, Named(k, TokenA), Named(k, TokenB))
<1>1. B \subseteq C /\ {Ata(TokenA, Named(k, TokenA)), Ata(TokenB, Named(k, TokenB))} \subseteq C
  BY DEF Both
<1> HIDE DEF C
<1>2. Ready(k, C, M)
  BY <1>1, KnowsReady
<1>3. \A o : IsNativePool => Ata(Native, o) \in Both(B, o, o)
  BY DEF Both, IsNativePool
<1>. QED
  BY <1>2, <1>3 DEF C

\* A transaction that may unwrap SOL at the end
LEMMA GoesEnd ==
    ASSUME NEW B, NEW M, NEW C, NEW p, Goes(p, B, M, C), NEW o, NEW r,
           IsNativePool => Ata(Native, o) \in C
    PROVE  \E D : Goes(p \o (IF IsNativePool THEN UnwrapSOL(o, r) ELSE <<>>), B, M, D)
<1> DEFINE q == IF IsNativePool THEN UnwrapSOL(o, r) ELSE <<>>
<1>1. CASE IsNativePool
  <2>1. q = UnwrapSOL(o, r)
    BY <1>1
  <2> HIDE DEF q
  <2>2. \E D : Goes(p \o q, B, M, D)
    BY <1>1, <2>1, GoesUnwrap
  <2>. QED
    BY <2>2 DEF q
<1>2. CASE ~IsNativePool
  <2>1. q = <<>>
    BY <1>2
  <2> HIDE DEF q
  <2>2. \E D : Goes(p \o q, B, M, D)
    BY <2>1, GoesNone
  <2>. QED
    BY <2>2 DEF q
<1>. QED
  BY <1>1, <1>2

LEMMA DepositGoes ==
    ASSUME pool \in Pools, NEW k, Asked(k), k.kind = "deposit", NEW B, NEW M, Knows(k, B, M)
    PROVE  \E C : Goes(Tx(k), B, M, C)
<1> DEFINE o == k.owner
           q1 == GetOrCreateATA(k.seen, TokenA, o, o)
           q2 == GetOrCreateATA(k.seen, TokenB, o, o)
           q3 == GetOrCreateATA(k.seen, Lp, o, o)
           w1 == WrapSOL(TokenA, o, Amount)
           w2 == WrapSOL(TokenB, o, Amount)
           main == [name |-> DepositMethod, a |-> Amount, b |-> Amount, lp |-> Amount,
                    acc |-> BothAccounts(o)]
           post == IF IsNativePool THEN UnwrapSOL(o, o) ELSE <<>>
           q == <<TokenA, TokenB, Lp>>
           C == Both(B, o, o)
           pre == (q1 \o q2) \o q3
<1>1. Tx(k) = (((pre \o w1) \o w2) \o <<main>>) \o post
  <2>1. Tx(k) = DepositTx(k)
    BY DEF Tx
  <2>2. q \in Seq(Mints) /\ Len(q) = 3 /\ q[1] = TokenA /\ q[2] = TokenB /\ q[3] = Lp
    BY DEF Mints
  <2>3. DepositTx(k) = (((CreateATAPre(k, q) \o w1) \o w2) \o <<main>>) \o post
    BY DEF DepositTx
  <2> HIDE DEF q, w1, w2, main, post
  <2>4. CreateATAPre(k, q) = pre
    BY <2>2, CreateThree
  <2>. QED
    BY <2>1, <2>3, <2>4
<1>2. o \in Users /\ o \in Wallets
  BY DEF Asked, Wallets
<1>3. IsMain(k, main)
  BY DEF IsMain
<1>4. Named(k, TokenA) = o /\ Named(k, TokenB) = o
  BY DEF Named
<1>5. Ata(TokenA, o) \in C /\ Ata(TokenB, o) \in C /\ Ready(k, C, M) /\ (IsNativePool => Ata(Native, o) \in C)
  <2>1. Ata(TokenA, o) \in C /\ Ata(TokenB, o) \in C
    BY DEF Both
  <2> HIDE DEF o
  <2>. QED
    BY <1>4, <2>1, BothReady
<1>6. Goes(q1 \o q2, B, M, C)
  BY <1>2, GoesBoth
<1>7. q3 = <<>>
  BY <1>2, KnownLp
<1> HIDE DEF q1, q2, q3, C, main, o
<1>8. Goes(pre, B, M, C)
  BY <1>6, <1>7, GoesNone
<1> HIDE DEF pre
<1>9. Goes(pre \o w1, B, M, C)
  BY <1>5, <1>8, GoesWrap
<1> HIDE DEF w1
<1>10. Goes((pre \o w1) \o w2, B, M, C)
  BY <1>5, <1>9, GoesWrap
<1> HIDE DEF w2
<1>11. Goes(((pre \o w1) \o w2) \o <<main>>, B, M, C)
  BY <1>3, <1>5, <1>10, GoesMain
<1>12. \E D : Goes((((pre \o w1) \o w2) \o <<main>>) \o post, B, M, D)
  BY <1>5, <1>11, GoesEnd
<1>. QED
  BY <1>1, <1>12

LEMMA WithdrawGoes ==
    ASSUME pool \in Pools, NEW k, Asked(k), k.kind = "withdraw", NEW B, NEW M, Knows(k, B, M)
    PROVE  \E C : Goes(Tx(k), B, M, C)
<1> DEFINE o == k.owner
           q1 == GetOrCreateATA(k.seen, TokenA, o, o)
           q2 == GetOrCreateATA(k.seen, TokenB, o, o)
           q3 == GetOrCreateATA(k.seen, Lp, o, o)
           post == IF IsNativePool THEN UnwrapSOL(o, o) ELSE <<>>
           q == <<TokenA, TokenB, Lp>>
           C == Both(B, o, o)
           pre == (q1 \o q2) \o q3
<1>1. PICK main : WithdrawInstruction(k) = <<main>>
  BY DEF WithdrawInstruction
<1>2. Tx(k) = (pre \o <<main>>) \o post
  <2>1. Tx(k) = WithdrawTx(k)
    BY DEF Tx
  <2>2. q \in Seq(Mints) /\ Len(q) = 3 /\ q[1] = TokenA /\ q[2] = TokenB /\ q[3] = Lp
    BY DEF Mints
  <2>3. WithdrawTx(k) = (CreateATAPre(k, q) \o <<main>>) \o post
    BY <1>1 DEF WithdrawTx
  <2> HIDE DEF q, post
  <2>4. CreateATAPre(k, q) = pre
    BY <2>2, CreateThree
  <2>. QED
    BY <2>1, <2>3, <2>4
<1>3. o \in Users /\ o \in Wallets
  BY DEF Asked, Wallets
<1>4. IsMain(k, main)
  BY <1>1 DEF IsMain
<1>5. Named(k, TokenA) = o /\ Named(k, TokenB) = o
  BY DEF Named
<1>6. Ready(k, C, M) /\ (IsNativePool => Ata(Native, o) \in C)
  <2> HIDE DEF o
  <2>. QED
    BY <1>5, BothReady
<1>7. Goes(q1 \o q2, B, M, C)
  BY <1>3, GoesBoth
<1>8. q3 = <<>>
  BY <1>3, KnownLp
<1> HIDE DEF q1, q2, q3, C, o
<1>9. Goes(pre, B, M, C)
  BY <1>7, <1>8, GoesNone
<1> HIDE DEF pre
<1>10. Goes(pre \o <<main>>, B, M, C)
  BY <1>4, <1>6, <1>9, GoesMain
<1>11. \E D : Goes((pre \o <<main>>) \o post, B, M, D)
  BY <1>6, <1>10, GoesEnd
<1>. QED
  BY <1>2, <1>11

LEMMA PartnerGoes ==
    ASSUME pool \in Pools, NEW k, Asked(k), k.kind = "partner", NEW B, NEW M, Knows(k, B, M)
    PROVE  \E C : Goes(Tx(k), B, M, C)
<1> DEFINE o == k.owner
           q1 == GetOrCreateATA(k.seen, TokenA, o, o)
           q2 == GetOrCreateATA(k.seen, TokenB, o, o)
           C == Both(B, o, o)
           main == [name |-> "partnerClaimFee", a |-> Amount, b |-> Amount,
                    acc |-> [pool |-> Pool, aVaultLp |-> VaultLp(TokenA, Pool),
                             protocolTokenAFee |-> FeeAccount(TokenA), protocolTokenBFee |-> FeeAccount(TokenB),
                             partnerTokenA |-> Ata(TokenA, o), partnerTokenB |-> Ata(TokenB, o),
                             tokenProgram |-> "tokenProgram", partnerAuthority |-> o]]
<1>1. Tx(k) = (q1 \o q2) \o <<main>>
  <2>1. Tx(k) = PartnerClaimTx(k)
    BY DEF Tx
  <2>2. PartnerClaimTx(k) = CreateATAPre(k, <<TokenA, TokenB>>) \o <<main>>
    BY DEF PartnerClaimTx
  <2>3. CreateATAPre(k, <<TokenA, TokenB>>) = q1 \o q2
    BY CreateTwo
  <2>. QED
    BY <2>1, <2>2, <2>3
<1>2. o \in Wallets
  BY DEF Asked, Wallets
<1>3. IsMain(k, main)
  BY DEF IsMain
<1>4. Named(k, TokenA) = o /\ Named(k, TokenB) = o
  BY DEF Named
<1>5. Ready(k, C, M)
  <2> HIDE DEF o
  <2>. QED
    BY <1>4, BothReady
<1>6. Goes(q1 \o q2, B, M, C)
  BY <1>2, GoesBoth
<1> HIDE DEF q1, q2, C, o, main
<1>7. Goes((q1 \o q2) \o <<main>>, B, M, C)
  BY <1>3, <1>5, <1>6, GoesMain
<1>. QED
  BY <1>1, <1>7

LEMMA ClaimGoes ==
    ASSUME pool \in Pools, NEW k, Asked(k), k.kind \in {"claim", "claim2"},
           NEW B, NEW M, Knows(k, B, M)
    PROVE  \E C : Goes(Tx(k), B, M, C)
<1> DEFINE a == PaidTo(k, TokenA)
           b == PaidTo(k, TokenB)
           p1 == GetOrCreateATA(k.seen, Lp, k.owner, k.payer)
           p2 == GetOrCreateATA(k.seen, Lp, EscrowOf(k.owner), k.payer)
           p3 == GetOrCreateATA(k.seen, TokenA, a, k.payer)
           p4 == GetOrCreateATA(k.seen, TokenB, b, k.payer)
           pre == ((p1 \o p2) \o p3) \o p4
           main == [name |-> "claimFee", acc |-> ClaimAccounts(k)]
           post == IF IsNativePool THEN UnwrapSOL(TempOf(k), k.other) ELSE <<>>
           C == Both(B, a, b)
<1>1. Tx(k) = (pre \o <<main>>) \o post
  BY ClaimForm
<1>2. a \in Wallets /\ b \in Wallets /\ k.owner \in Users
  BY DEF Asked, PaidTo, TempOf, Wallets
<1>3. IsMain(k, main)
  BY DEF IsMain
<1>4. Named(k, TokenA) = a /\ Named(k, TokenB) = b
  BY DEF Named
<1>5. IsNativePool => Ata(Native, TempOf(k)) \in C
  <2>1. CASE TokenA = Native
    BY <2>1 DEF Both, PaidTo
  <2>2. CASE TokenB = Native
    BY <2>2 DEF Both, PaidTo
  <2>. QED
    BY <2>1, <2>2 DEF IsNativePool
<1>6. Ready(k, C, M)
  <2> HIDE DEF a, b
  <2>. QED
    BY <1>4, BothReady
<1>7. p1 = <<>> /\ p2 = <<>>
  BY <1>2, KnownLp
<1>8. Goes(p3 \o p4, B, M, C)
  <2> HIDE DEF a, b
  <2>. QED
    BY <1>2, GoesBoth
<1>9. p3 \in Seq(ToSet(p3))
  BY AtaPrepares DEF Prepares, AllNeutral
<1> HIDE DEF p1, p2, p3, p4, C, main, a, b
<1>10. pre = p3 \o p4
  <2>1. p1 \o p2 = <<>>
    BY <1>7
  <2> DEFINE none == p1 \o p2
  <2> HIDE DEF none
  <2>2. none = <<>>
    BY <2>1 DEF none
  <2>3. none \o p3 = p3
    BY <1>9, <2>2
  <2>. QED
    BY <2>3 DEF none
<1>11. Goes(pre, B, M, C)
  BY <1>8, <1>10
<1> HIDE DEF pre
<1>12. Goes(pre \o <<main>>, B, M, C)
  BY <1>3, <1>6, <1>11, GoesMain
<1>13. \E D : Goes((pre \o <<main>>) \o post, B, M, D)
  BY <1>5, <1>12, GoesEnd
<1>. QED
  BY <1>1, <1>13

\* A transaction that is built on the accounts there are fails for lack of funds or
\* slippage only.
LEMMA TxFair ==
    ASSUME pool \in Pools, NEW k, Asked(k), NEW s, {"bal", "made", "sol"} \subseteq DOMAIN s,
           Knows(k, DOMAIN s.bal, s.made), NEW draw
    PROVE  Run(s, Tx(k), draw).res \in Fair
<1> DEFINE ixs == Tx(k)
<1>1. \E C : Goes(Tx(k), DOMAIN s.bal, s.made, C)
  BY SwapGoes, DepositGoes, WithdrawGoes, ClaimGoes, PartnerGoes DEF Asked
<1> HIDE DEF ixs
<1>2. PICK C : Goes(ixs, DOMAIN s.bal, s.made, C)
  BY <1>1 DEF ixs
<1>3. Reaches(Run(s, ixs, draw), C, s.made)
  BY <1>2 DEF Goes
<1>. QED
  BY <1>3 DEF Reaches, ixs

-----------------------------------------------------------------------------
(* Accounts that stay                                                      *)

\* Only wrapped SOL accounts of wallets are closed.
Closes(s, t) ==
    /\ {"bal", "made", "sol"} \subseteq DOMAIN t /\ s.made \subseteq t.made
    /\ \A a \in DOMAIN s.bal : a \in DOMAIN t.bal \/ \E w : a = Ata(Native, w)

Careful(ix) ==
    \A s : Fields(s) /\ s.res = "ok" => Fields(Execute(s, ix)) /\ Closes(s, Execute(s, ix))

AllCareful(ixs) == ixs \in Seq(ToSet(ixs)) /\ \A ix \in ToSet(ixs) : Careful(ix)

LEMMA TouchesCloses ==
    ASSUME NEW W, NEW s, NEW t, Touches(s, t, W)
    PROVE  Fields(t) /\ Closes(s, t)
BY DEF Touches, Closes, Fields

LEMMA FailCloses ==
    ASSUME NEW s, Fields(s), NEW why
    PROVE  Fields(Fail(s, why)) /\ Closes(s, Fail(s, why))
BY FailTouches, TouchesCloses

LEMMA AtaCareful ==
    ASSUME NEW ix, ix.name = "createAta"
    PROVE  Careful(ix)
<1> SUFFICES ASSUME NEW s, Fields(s), s.res = "ok"
             PROVE  Fields(Execute(s, ix)) /\ Closes(s, Execute(s, ix))
  BY DEF Careful
<1> DEFINE c == Check(s, MintOf(ix.account) \in s.made, "missing")
           b == [x \in {ix.account} |-> 0] ++ c.bal
           t == Open(c, ix.account)
<1>1. Execute(s, ix) = t
  BY DEF Execute, OfProgram, Idl
<1>2. Touches(s, c, {})
  BY CheckTouches
<1> HIDE DEF c
<1>3. Fields(c) /\ DOMAIN c.bal = DOMAIN s.bal /\ c.made = s.made
  BY <1>2 DEF Touches
<1>4. Fields(t) /\ Closes(c, t)
  <2>1. CASE ix.account \in DOMAIN c.bal
    <3>1. t = Fail(c, "exists")
      BY <2>1 DEF Open
    <3>. QED
      BY <1>3, <3>1, FailCloses
  <2>2. CASE ix.account \notin DOMAIN c.bal
    <3>1. t = [c EXCEPT !.bal = b]
      BY <2>2 DEF Open
    <3>2. DOMAIN c.bal \subseteq DOMAIN b
      BY DEF ++
    <3> HIDE DEF b, t
    <3>3. Fields(t) /\ t.bal = b /\ t.made = c.made
      BY <1>3, <3>1 DEF Fields
    <3>. QED
      BY <3>2, <3>3 DEF Closes, Fields
  <2>. QED
    BY <2>1, <2>2
<1> HIDE DEF t
<1>. QED
  BY <1>1, <1>3, <1>4 DEF Closes

LEMMA WrapCareful ==
    ASSUME NEW ix, ix.name = "wrap"
    PROVE  Careful(ix)
<1> SUFFICES ASSUME NEW s, Fields(s), s.res = "ok"
             PROVE  Fields(Execute(s, ix)) /\ Closes(s, Execute(s, ix))
  BY DEF Careful
<1> DEFINE n == Mint(s, ix.to, ix.amount)
           t == Wrap(s, ix.from, ix.to, ix.amount)
<1>1. Execute(s, ix) = t
  BY DEF Execute, OfProgram, Idl
<1>2. Touches(s, n, {ix.to})
  BY MintTouches
<1>3. CASE s.sol[ix.from] < ix.amount
  <2>1. t = Fail(s, "funds")
    BY <1>3 DEF Wrap
  <2>. QED
    BY <1>1, <2>1, FailCloses
<1>4. CASE ~(s.sol[ix.from] < ix.amount)
  <2>1. t = [n EXCEPT !.sol[ix.from] = @ - ix.amount]
    BY <1>4 DEF Wrap
  <2> HIDE DEF n, t
  <2>2. Fields(n) /\ Closes(s, n)
    BY <1>2, TouchesCloses
  <2>3. Fields(t) /\ t.bal = n.bal /\ t.made = n.made
    BY <2>1, <2>2 DEF Fields
  <2>. QED
    BY <1>1, <2>2, <2>3 DEF Closes, Fields
<1>. QED
  BY <1>3, <1>4

LEMMA CloseCareful ==
    ASSUME NEW ix, ix.name = "close", NEW w, ix.account = Ata(Native, w)
    PROVE  Careful(ix)
<1> SUFFICES ASSUME NEW s, Fields(s), s.res = "ok"
             PROVE  Fields(Execute(s, ix)) /\ Closes(s, Execute(s, ix))
  BY DEF Careful
<1> DEFINE a == ix.account
           r == ix.receiver
           b == Restrict(s.bal, DOMAIN s.bal \ {a})
           t == Close(s, a, r)
<1>1. Execute(s, ix) = t
  BY DEF Execute, OfProgram, Idl
<1>2. CASE t = Fail(s, "missing") \/ t = Fail(s, "notEmpty")
  BY <1>1, <1>2, FailCloses
<1>3. CASE t = [s EXCEPT !.bal = b, !.sol[r] = @ + s.bal[a]]
  <2>1. DOMAIN b = DOMAIN s.bal \ {a}
    BY DEF Restrict
  <2> HIDE DEF b, t
  <2>2. Fields(t) /\ t.bal = b /\ t.made = s.made
    BY <1>3 DEF Fields
  <2>. QED
    BY <1>1, <2>1, <2>2 DEF Closes, Fields
<1>. QED
  BY <1>2, <1>3 DEF Close

LEMMA NeutralCareful ==
    ASSUME NEW ixs, AllNeutral(ixs)
    PROVE  AllCareful(ixs)
<1>1. ASSUME NEW ix, Neutral(ix) PROVE Careful(ix)
  BY <1>1, AtaCareful, WrapCareful, CloseCareful DEF Neutral
<1>. QED
  BY <1>1 DEF AllNeutral, AllCareful

LEMMA UnwrapCareful ==
    ASSUME NEW o, NEW r
    PROVE  AllCareful(UnwrapSOL(o, r))
<1> DEFINE ix == [name |-> "close", account |-> Ata(Native, o), receiver |-> r, signers |-> {o}]
<1>1. UnwrapSOL(o, r) = <<ix>>
  BY DEF UnwrapSOL
<1>2. Careful(ix)
  <2>1. ix.name = "close" /\ ix.account = Ata(Native, o)
    OBVIOUS
  <2> HIDE DEF ix
  <2>. QED
    BY <2>1, CloseCareful
<1> HIDE DEF ix
<1>. QED
  BY <1>1, <1>2, One DEF AllCareful

LEMMA MainCareful ==
    ASSUME pool \in Pools, NEW k, Asked(k), NEW ix, IsMain(k, ix)
    PROVE  AllCareful(<<ix>>)
<1>1. ASSUME NEW s, Fields(s), s.res = "ok"
      PROVE  Fields(Execute(s, ix)) /\ Closes(s, Execute(s, ix))
  <2>1. PICK W : Touches(s, Execute(s, ix), W)
    BY <1>1, MainWorks DEF Works
  <2>. QED
    BY <2>1, TouchesCloses
<1>2. Careful(ix)
  BY <1>1 DEF Careful
<1>. QED
  BY <1>2, One DEF AllCareful

LEMMA TxCareful ==
    ASSUME pool \in Pools, NEW k, Asked(k)
    PROVE  AllCareful(Tx(k))
<1> DEFINE W == Parties(k)
<1>1. PICK pre, main, post :
        /\ Tx(k) = (pre \o <<main>>) \o post
        /\ Prepares(pre, W) /\ IsMain(k, main)
        /\ \/ Prepares(post, W)
           \/ k.kind \in {"claim", "claim2"} /\ post = UnwrapSOL(TempOf(k), k.other)
  BY TxParts
<1>2. AllCareful(pre) /\ AllCareful(<<main>>) /\ AllCareful(post)
  BY <1>1, NeutralCareful, MainCareful, UnwrapCareful DEF Prepares
<1>3. AllCareful(pre \o <<main>>)
  BY <1>2, Joined DEF AllCareful
<1> DEFINE p == pre \o <<main>>
<1> HIDE DEF p
<1>4. AllCareful(p \o post)
  BY <1>2, <1>3, Joined DEF AllCareful, p
<1>. QED
  BY <1>1, <1>4 DEF p

LEMMA RunCloses ==
    ASSUME NEW s, {"bal", "made", "sol"} \subseteq DOMAIN s, NEW draw, NEW ixs, AllCareful(ixs)
    PROVE  Closes(s, Committed(Run(s, ixs, draw)))
<1> DEFINE L == Len(ixs)
           b == Begin(s, draw)
           out == Run(s, ixs, draw)
<1>1. L \in Nat /\ DOMAIN ixs = 1..L
  BY DEF AllCareful
<1>2. Fields(b) /\ b.bal = s.bal /\ b.made = s.made
  BY DEF Begin, ++, Fields
<1>3. \A i \in 1..L : Careful(ixs[i])
  BY <1>1 DEF AllCareful, ToSet
<1>4. PICK g : Trace(g, s, ixs, draw)
  BY <1>1, RunSteps
<1>5. /\ g[0] = b /\ out = g[L]
      /\ \A n \in Nat : n + 1 <= L => g[n + 1] = Execute(g[n], ixs[n + 1])
  BY <1>4 DEF Trace
<1> HIDE DEF L, b, out
<1> DEFINE Claim(n) == Fields(g[n]) /\ Closes(s, g[n])
           S == {n \in Nat : n <= L => Claim(n)}
<1>6. 0 \in S
  <2>1. Closes(s, b)
    BY <1>2 DEF Closes, Fields
  <2>. QED
    BY <1>2, <1>5, <2>1
<1>7. ASSUME NEW n \in Nat, n \in S PROVE n + 1 \in S
  <2> SUFFICES ASSUME n + 1 <= L PROVE Claim(n + 1)
    OBVIOUS
  <2>1. n + 1 \in 1..L /\ n <= L
    BY <1>1
  <2> DEFINE t == g[n]
             u == g[n + 1]
  <2>2. u = Execute(t, ixs[n + 1])
    BY <1>5, <2>1
  <2>3. Claim(n)
    BY <1>7, <2>1
  <2> HIDE DEF t, u
  <2>4. CASE t.res # "ok"
    <3>1. u = t
      BY <2>2, <2>4 DEF Execute
    <3>. QED
      BY <2>3, <3>1 DEF t, u
  <2>5. CASE t.res = "ok"
    <3>1. Fields(t) /\ Closes(s, t)
      BY <2>3 DEF t
    <3>2. Fields(u) /\ Closes(t, u)
      BY <1>3, <2>1, <2>2, <2>5, <3>1 DEF Careful
    <3>3. Closes(s, u)
      BY <3>1, <3>2 DEF Closes
    <3>. QED
      BY <3>2, <3>3 DEF u
  <2>. QED
    BY <2>4, <2>5
<1> HIDE DEF S
<1>8. L \in S
  BY <1>1, <1>6, <1>7, SetInduction
<1>9. Closes(s, out)
  BY <1>1, <1>5, <1>8 DEF S
<1>. QED
  BY <1>9 DEF Closes, Committed, out

\* The accounts that every transaction needs stay.
LEMMA StandingStays ==
    ASSUME pool \in Pools, NEW s, NEW t, Closes(s, t), Standing(pool, DOMAIN s.bal, s.made)
    PROVE  Standing(pool, DOMAIN t.bal, t.made)
<1>1. s.made \subseteq t.made /\ \A a \in DOMAIN s.bal : a \in DOMAIN t.bal \/ \E w : a = Ata(Native, w)
  BY DEF Closes
<1>2. Lp # Native
  BY PoolTokens
<1>3. \A x, w : TokenVault(x) # Ata(Native, w) /\ FeeAccount(x) # Ata(Native, w) /\ Ata(Lp, x) # Ata(Native, w)
  BY <1>2, Addresses
<1>. QED
  BY <1>1, <1>3, AtStanding

-----------------------------------------------------------------------------
(* Calls before which nothing changed, with the pool p and the ledger l    *)

\* The call k has the accounts of the ledger as long as nothing has changed, and it
\* failed for nothing else than lack of funds or slippage if nothing had.
Undisturbed(p, l, k) ==
    /\ k.pc # "unused" => {"quiet", "seen"} \subseteq DOMAIN k /\ (k.kind = "swap" => k.other \in Users)
    /\ k.pc = "built" /\ k.quiet => k.seen = LooksUp(p) \cap DOMAIN l.bal
    /\ k.pc \notin {"unused", "built", "landed", "funds", "slippage"} => ~k.quiet

QuietInv ==
    /\ Standing(pool, DOMAIN ledger.bal, ledger.made)
    /\ \A c \in Calls : Undisturbed(pool, ledger, call[c])

LEMMA InitQuiet ==
    ASSUME Init
    PROVE  QuietInv
<1> DEFINE vaults == {TokenVault(TokenA), TokenVault(TokenB)}
           lps    == {Ata(Lp, u) : u \in Users} \cup {Ata(Lp, EscrowOf(u)) : u \in Users}
           fees   == {FeeAccount(TokenA), FeeAccount(TokenB)}
<1>1. PICK users \in SUBSET Users :
        ledger = [bal  |-> [a \in vaults \cup lps \cup fees \cup OpenedBy(users) |->
                              IF Empty /\ a \in vaults \cup lps THEN 0 ELSE 2 * MaxCalls * Amount],
                  made |-> Mints \cup {Pool} \cup {EscrowOf(u) : u \in Users},
                  sol  |-> [w \in Wallets |-> InitSol]]
  BY DEF Init
<1>2. /\ DOMAIN ledger.bal = vaults \cup lps \cup fees \cup OpenedBy(users)
      /\ ledger.made = Mints \cup {Pool} \cup {EscrowOf(u) : u \in Users}
  BY <1>1
<1>3. Standing(pool, DOMAIN ledger.bal, ledger.made)
  BY <1>2, AtStanding DEF Mints
<1>4. \A c \in Calls : call[c].pc = "unused"
  BY DEF Init
<1>. QED
  BY <1>3, <1>4 DEF QuietInv, Undisturbed

LEMMA RequestOther ==
    ASSUME NEW k \in Requests
    PROVE  "kind" \in DOMAIN k /\ (k.kind = "swap" => "other" \in DOMAIN k /\ k.other \in Users)
<1>1. CASE k \in [kind : {"swap"}, owner : Owners, other : Users, mint : {TokenA, TokenB}, min : {MinOut}]
  BY <1>1
<1>2. CASE k \in [kind : {"deposit"}, owner : Owners]
  BY <1>2
<1>3. CASE k \in [kind : {"withdraw"}, owner : Owners, minA : {0, MinOut}, minB : {0, MinOut}]
  BY <1>3
<1>4. CASE k \in [kind : {"claim", "claim2"}, owner : Owners, other : Users, payer : Users]
  BY <1>4
<1>5. CASE k \in [kind : {"partner"}, owner : {Partner}]
  BY <1>5
<1>. QED
  BY <1>1, <1>2, <1>3, <1>4, <1>5 DEF Requests

LEMMA BuildQuiet ==
    ASSUME Inv, QuietInv, NEW c \in Calls, Build(c)
    PROVE  QuietInv'
<1> DEFINE seen == LookedUp \cap DOMAIN ledger.bal
           head == [pc |-> "built", quiet |-> TRUE, seen |-> seen]
<1>1. PICK k \in Requests : call' = [call EXCEPT ![c] = head ++ k]
  BY DEF Build
<1>2. pool' = pool /\ ledger' = ledger
  BY DEF Build
<1> DEFINE new == head ++ k
<1>3. /\ DOMAIN head = {"pc", "quiet", "seen"} /\ head.pc = "built" /\ head.quiet = TRUE
      /\ head.seen = seen
  OBVIOUS
<1>4. seen = LooksUp(pool) \cap DOMAIN ledger.bal
  BY AtStanding
<1> HIDE DEF head, seen
<1>5. /\ {"pc", "quiet", "seen"} \subseteq DOMAIN new /\ new.pc = "built" /\ new.seen = seen
      /\ \A x \in DOMAIN k \ {"pc", "quiet", "seen"} : new[x] = k[x]
  BY <1>3 DEF ++
<1>6. new.kind = "swap" => new.other \in Users
  BY <1>5, RequestOther
<1> HIDE DEF new
<1>7. Undisturbed(pool, ledger, new)
  BY <1>4, <1>5, <1>6 DEF Undisturbed
<1>8. \A d \in Calls : call'[d] = IF d = c THEN new ELSE call[d]
  BY <1>1 DEF Inv, new
<1>9. \A d \in Calls : Undisturbed(pool, ledger, call'[d])
  BY <1>7, <1>8 DEF QuietInv
<1>. QED
  BY <1>2, <1>9 DEF QuietInv

\* Every other call is disturbed, whatever the ledger has become.
LEMMA OthersDisturbed ==
    ASSUME Inv, QuietInv, NEW c, NEW l, NEW d \in Calls, d # c
    PROVE  Undisturbed(pool, l, Disturbed(c)[d])
<1> DEFINE k == call[d]
           h == [k EXCEPT !.quiet = FALSE]
<1>1. Undisturbed(pool, ledger, k) /\ "pc" \in DOMAIN k
  BY DEF QuietInv, Inv, CallOk
<1>2. Disturbed(c)[d] = IF k.pc = "built" THEN h ELSE k
  BY DEF Disturbed
<1>3. DOMAIN h = DOMAIN k /\ ("quiet" \in DOMAIN k => h.quiet = FALSE)
  OBVIOUS
<1>4. k.pc # "unused" => AskedOf(pool, k)
  BY DEF Inv, CallOk
<1>5. \A x \in DOMAIN k \ {"quiet"} : h[x] = k[x]
  OBVIOUS
<1> HIDE DEF k, h
<1>6. CASE k.pc = "built"
  <2>1. {"quiet", "seen"} \subseteq DOMAIN k /\ (k.kind = "swap" => k.other \in Users)
    BY <1>1, <1>6 DEF Undisturbed
  <2>2. h.pc = "built" /\ h.quiet = FALSE
    BY <1>1, <1>3, <1>5, <1>6, <2>1
  <2>3. h.kind = "swap" => h.other \in Users
    BY <1>4, <1>5, <1>6, <2>1 DEF AskedOf
  <2>4. Undisturbed(pool, l, h)
    BY <1>3, <2>1, <2>2, <2>3 DEF Undisturbed
  <2>. QED
    BY <1>2, <1>6, <2>4
<1>7. CASE k.pc # "built"
  <2>1. Undisturbed(pool, l, k)
    BY <1>1, <1>7 DEF Undisturbed
  <2>. QED
    BY <1>2, <1>7, <2>1
<1>. QED
  BY <1>6, <1>7

LEMMA LandQuiet ==
    ASSUME Inv, QuietInv, NEW c \in Calls, Land(c)
    PROVE  QuietInv'
<1> DEFINE k == call[c]
<1>1. PICK draw \in Draws :
        LET out == Run(ledger, Tx(call[c]), draw)
        IN  IF out.res = "ok"
            THEN /\ ledger' = Committed(out)
                 /\ call' = [Disturbed(c) EXCEPT ![c] = [pc |-> "landed", draw |-> draw] ++ @]
            ELSE call' = [call EXCEPT ![c].pc = out.res] /\ UNCHANGED ledger
  BY DEF Land
<1> DEFINE out == Run(ledger, Tx(k), draw)
<1>2. k.pc = "built" /\ pool' = pool
  BY DEF Land
<1>3. /\ pool \in Pools /\ {"bal", "made", "sol"} \subseteq DOMAIN ledger /\ DOMAIN call = Calls
      /\ CallOk(pool, k) /\ Undisturbed(pool, ledger, k)
      /\ Standing(pool, DOMAIN ledger.bal, ledger.made)
  BY DEF Inv, QuietInv
<1>4. Asked(k) /\ "pc" \in DOMAIN k
  BY <1>2, <1>3, AtPool DEF CallOk
<1>5. {"quiet", "seen"} \subseteq DOMAIN k /\ (k.kind = "swap" => k.other \in Users)
  BY <1>2, <1>3 DEF Undisturbed
<1>6. CASE out.res # "ok"
  <2> DEFINE new == [k EXCEPT !.pc = out.res]
  <2>1. call' = [call EXCEPT ![c].pc = out.res] /\ ledger' = ledger
    BY <1>1, <1>6
  <2>2. \A d \in Calls : call'[d] = IF d = c THEN new ELSE call[d]
    BY <1>3, <2>1
  <2>3. k.quiet => out.res \in Fair
    <3>1. ASSUME k.quiet PROVE Knows(k, DOMAIN ledger.bal, ledger.made)
      BY <1>2, <1>3, <1>5, <3>1, AtStanding DEF Undisturbed, Knows
    <3> HIDE DEF k
    <3>. QED
      BY <1>3, <1>4, <3>1, TxFair
  <2>4. Ends(ledger, out, k, draw)
    BY <1>3, <1>4, TxEnds
  <2>5. out.res \in Reasons
    BY <1>6, <2>4 DEF Ends
  <2> HIDE DEF out, k
  <2>6. /\ DOMAIN new = DOMAIN k /\ new.pc = out.res
        /\ \A x \in DOMAIN k \ {"pc"} : new[x] = k[x]
    BY <1>4
  <2> HIDE DEF new
  <2>7. new.quiet = k.quiet
    BY <1>5, <2>6
  <2>8. new.kind = "swap" => new.other \in Users
    BY <1>4, <1>5, <2>6 DEF Asked
  <2>9. out.res \notin {"unused", "built", "landed"}
    BY <2>5 DEF Reasons
  <2>10. out.res \notin {"unused", "built", "landed", "funds", "slippage"} => ~new.quiet
    BY <1>6, <2>3, <2>7 DEF Fair
  <2>11. Undisturbed(pool, ledger, new)
    BY <1>5, <2>6, <2>8, <2>9, <2>10 DEF Undisturbed
  <2>12. \A d \in Calls : Undisturbed(pool, ledger, call'[d])
    BY <2>2, <2>11 DEF QuietInv
  <2>. QED
    BY <1>2, <2>1, <2>12 DEF QuietInv
<1>7. CASE out.res = "ok"
  <2> DEFINE new == Done(k, draw)
             D == Disturbed(c)
             l == Committed(out)
  <2>1. ledger' = l /\ call' = [D EXCEPT ![c] = [pc |-> "landed", draw |-> draw] ++ @]
    BY <1>1, <1>7
  <2>2. D[c] = k /\ DOMAIN D = Calls
    BY DEF Disturbed
  <2>3. Standing(pool, DOMAIN l.bal, l.made)
    <3>1. AllCareful(Tx(k))
      BY <1>3, <1>4, TxCareful
    <3>2. Closes(ledger, l)
      BY <1>3, <3>1, RunCloses
    <3> HIDE DEF l
    <3>. QED
      BY <1>3, <3>2, StandingStays
  <2> HIDE DEF l, k
  <2>4. \A d \in Calls \ {c} : Undisturbed(pool, l, D[d])
    BY OthersDisturbed
  <2> HIDE DEF D
  <2>5. \A d \in Calls : call'[d] = IF d = c THEN new ELSE D[d]
    BY <2>1, <2>2 DEF Done
  <2>6. new.pc = "landed" /\ \A x \in DOMAIN k \ {"pc", "draw"} : new[x] = k[x]
    BY DoneFacts
  <2>7. DOMAIN k \subseteq DOMAIN new
    BY DEF Done, ++
  <2> HIDE DEF new
  <2>8. new.kind = "swap" => new.other \in Users
    BY <1>4, <1>5, <2>6 DEF Asked
  <2>9. Undisturbed(pool, l, new)
    BY <1>5, <2>6, <2>7, <2>8 DEF Undisturbed
  <2>10. \A d \in Calls : Undisturbed(pool, l, call'[d])
    BY <2>4, <2>5, <2>9
  <2>. QED
    BY <1>2, <2>1, <2>3, <2>10 DEF QuietInv
<1>. QED
  BY <1>6, <1>7

LEMMA WrapQuiet ==
    ASSUME Inv, QuietInv, NEW w \in Owners, WrapOwn(w)
    PROVE  QuietInv'
<1> DEFINE open == GetOrCreateATA(DOMAIN ledger.bal, Native, w, w)
           wrap == WrapSOL(Native, w, 1)
           l == Committed(Run(ledger, open \o wrap, <<0, 0>>))
<1>1. ledger' = l /\ call' = Disturbed(0) /\ pool' = pool
  BY DEF WrapOwn
<1>2. w \in Users /\ {"bal", "made", "sol"} \subseteq DOMAIN ledger /\ pool \in Pools
  BY WalletConstants DEF Inv
<1>3. AllCareful(open \o wrap)
  <2>1. Prepares(open, {w})
    BY AtaPrepares
  <2>2. Prepares(wrap, {w})
    BY <1>2, WrapPrepares
  <2> HIDE DEF open, wrap
  <2>. QED
    BY <2>1, <2>2, PreparesJoined, NeutralCareful DEF Prepares
<1> DEFINE ixs == open \o wrap
<1> HIDE DEF ixs
<1>4. Closes(ledger, l)
  BY <1>2, <1>3, RunCloses DEF ixs
<1> HIDE DEF l
<1>5. Standing(pool, DOMAIN l.bal, l.made)
  BY <1>2, <1>4, StandingStays DEF QuietInv
<1>6. \A d \in Calls : d # 0
  BY DEF Calls
<1>7. \A d \in Calls : Undisturbed(pool, l, Disturbed(0)[d])
  BY <1>6, OthersDisturbed
<1>. QED
  BY <1>1, <1>5, <1>7 DEF QuietInv

LEMMA NextQuiet ==
    ASSUME Inv, QuietInv, [Next]_vars
    PROVE  QuietInv'
<1>1. CASE UNCHANGED vars
  BY <1>1 DEF vars, QuietInv
<1>2. ASSUME NEW c \in Calls, Build(c) PROVE QuietInv'
  BY <1>2, BuildQuiet
<1>3. ASSUME NEW c \in Calls, Land(c) PROVE QuietInv'
  BY <1>3, LandQuiet
<1>4. ASSUME NEW w \in Owners, WrapOwn(w) PROVE QuietInv'
  BY <1>4, WrapQuiet
<1>. QED
  BY <1>1, <1>2, <1>3, <1>4 DEF Next

-----------------------------------------------------------------------------
(* The properties                                                          *)

\* In every behaviour, a transaction needs only the signatures of the wallets that
\* take part in its call, and names every account that the interface requires:
\* all lists of instructions of swap, deposit, withdraw and the three claims.
THEOREM SignedByPartiesAlways == Spec => []SignedByParties
<1>1. ASSUME Inv PROVE SignedByParties
  <2>1. ASSUME NEW c \in Calls, call[c].pc = "built", NEW ix \in Range(Tx(call[c]))
        PROVE  WellFormed(ix) /\ Signers(ix) \subseteq Parties(call[c])
    <3>1. CallOk(pool, call[c])
      BY <1>1 DEF Inv
    <3>2. Asked(call[c])
      BY <2>1, <3>1, AtPool DEF CallOk
    <3> DEFINE ixs == Tx(call[c])
    <3>3. Signed(ixs, Parties(call[c]))
      BY <3>2, TxSigned
    <3> HIDE DEF ixs
    <3>4. ix \in ToSet(ixs)
      BY <2>1 DEF Range, ToSet, ixs
    <3>. QED
      BY <3>3, <3>4 DEF Signed
  <2>. QED
    BY <2>1 DEF SignedByParties
<1>. QED
  BY <1>1, InvAlways, PTL

\* In every behaviour, a swap or a withdrawal of both tokens that has landed met the
\* minimums it was built with, of the right token each.
THEOREM MinimumsKeptAlways == Spec => []MinimumsKept
<1>1. ASSUME Inv PROVE MinimumsKept
  <2>1. ASSUME NEW c \in Landed
        PROVE  /\ call[c].kind = "swap" => call[c].draw[1] >= call[c].min
               /\ call[c].kind = "withdraw" /\ ~(Stable /\ (call[c].minA = 0 \/ call[c].minB = 0)) =>
                    Due(call[c], TokenA) >= call[c].minA /\ Due(call[c], TokenB) >= call[c].minB
    <3> DEFINE k == call[c]
    <3>1. c \in Calls /\ k.pc = "landed"
      BY DEF Landed
    <3>2. CallOk(pool, k)
      BY <1>1, <3>1 DEF Inv
    <3> HIDE DEF k
    <3>3. MinsOf(pool, k, k.draw)
      BY <3>1, <3>2 DEF CallOk
    <3>4. TokenA # TokenB /\ Lp # TokenA /\ Lp # TokenB
      BY <1>1, PoolTokens DEF Inv
    <3>5. ASSUME k.kind = "withdraw", ~(Stable /\ (k.minA = 0 \/ k.minB = 0))
          PROVE  Due(k, TokenA) = k.draw[1] /\ Due(k, TokenB) = k.draw[2]
      BY <3>4, <3>5 DEF Due
    <3>. QED
      BY <3>3, <3>5 DEF MinsOf, Stable, k
  <2>. QED
    BY <2>1 DEF MinimumsKept
<1>. QED
  BY <1>1, InvAlways, PTL

\* In every behaviour, unless claimLockFee2 was sent to another wallet, every wallet
\* has of every token what it had at the start and what the program paid it or took:
\* creating accounts, wrapping and unwrapping, by the client and beside it, move no
\* value, in whatever order calls are built and land.
THEOREM PaidToTheRightWalletAlways == Spec => []PaidToTheRightWallet
<1>1. ASSUME Inv PROVE PaidToTheRightWallet
  <2> SUFFICES ASSUME \A c \in Landed : call[c].kind = "claim2" => call[c].other = call[c].owner,
                      NEW w \in Wallets, NEW m \in Mints
               PROVE  Holding(ledger, w, m) =
                        Holding(start, w, m) + Sum({c \in Landed : Beneficiary(call[c]) = w}, m)
    BY DEF PaidToTheRightWallet
  <2>1. Kept(call)
    BY DEF Kept, Landed
  <2>2. Paid(pool, ledger, start, call)
    BY <1>1, <2>1 DEF Inv, Settled
  <2>3. Holding(ledger, w, m) = Holding(start, w, m) + Total(Share(pool, call, w, m))
    BY <2>2, AtPool DEF Paid
  <2>4. [c \in Calls |-> IF c \in {d \in Landed : Beneficiary(call[d]) = w} THEN Due(call[c], m) ELSE 0]
          = Share(pool, call, w, m)
    BY AtPool DEF Share, Landed
  <2>5. Sum({c \in Landed : Beneficiary(call[c]) = w}, m) = Total(Share(pool, call, w, m))
    BY <2>4 DEF Sum
  <2>. QED
    BY <2>3, <2>5
<1>. QED
  BY <1>1, InvAlways, PTL

\* In every behaviour, whatever claims were sent to other wallets, all wallets together
\* have of every token what they had at the start and what the program paid or took:
\* a wrapped SOL account that is closed to somebody else passes on what it held, and
\* nothing of it is lost.
THEOREM NothingLostAlways == Spec => []NothingLost
<1>1. ASSUME Inv PROVE NothingLost
  <2>1. ASSUME NEW m \in Mints
        PROVE  Together(ledger, m) = Together(start, m) + Sum(Landed, m)
    <3>1. Together(ledger, m) = Together(start, m) + Total(AllShares(pool, call, m))
      BY <1>1, AtPool DEF Inv, Settled, Whole
    <3>2. [c \in Calls |-> IF c \in Landed THEN Due(call[c], m) ELSE 0] = AllShares(pool, call, m)
      BY AtPool DEF AllShares, Landed
    <3>3. Sum(Landed, m) = Total(AllShares(pool, call, m))
      BY <3>2 DEF Sum
    <3>. QED
      BY <3>1, <3>3
  <2>. QED
    BY <2>1 DEF NothingLost, Together
<1>. QED
  BY <1>1, InvAlways, PTL

\* However calls are built and land, a transaction before which nothing else has changed
\* fails for lack of funds or slippage only: it finds every account it needs, because
\* nothing closes the accounts a client does not look up, and it creates none that exists.
THEOREM QuietTxLandsAlways == Spec => []QuietTxLands
<1>1. Init => QuietInv
  BY InitQuiet
<1>2. Inv /\ QuietInv /\ [Next]_vars => QuietInv'
  BY NextQuiet
<1>3. QuietInv => QuietTxLands
  BY DEF QuietInv, Undisturbed, QuietTxLands
<1>. QED
  BY <1>1, <1>2, <1>3, InvAlways, PTL DEF Spec
=============================================================================
