----------------------------- MODULE ConfigProofs ----------------------------
(***************************************************************************)
(* For any number of racing calls and any bound on the index: types, that  *)
(* no index is skipped, and that a creation fails only for a rival that    *)
(* took its index since.  The last needs to know how an index that was     *)
(* free at the look-up came to be used: Taken, by a call that landed.      *)
(***************************************************************************)
EXTENDS ConfigIndex, TLAPS

\* An index that was free when a call looked, and is used now, was taken by a call
\* that had not landed then.
Taken ==
    \A c \in Calls : pc[c] = "built" /\ index[c] \in used =>
      \E d \in Landed \ before[c] : index[d] = index[c]

\* What had landed when a call looked has landed.
StillLanded == \A c \in Calls : before[c] \subseteq Landed

\* A config stores what a call that landed at its index asked for.
Stored ==
    \A i \in used : \E c \in Landed : index[c] = i /\ account[i] = Arguments(asked[c])

Inv == TypeOK /\ NoGaps /\ StillLanded /\ Taken /\ FailedForARival /\ Stored

LEMMA InvInit == Init => Inv
BY ConfigConstants DEF Init, Inv, TypeOK, NoGaps, StillLanded, Taken, FailedForARival, Stored, Indices, Landed

LEMMA TypeStep ==
    ASSUME TypeOK, [Next]_vars
    PROVE  TypeOK'
<1>. USE DEF TypeOK
<1>1. ASSUME NEW c \in Calls, NEW i \in Indices, CreateConfig(c, i) PROVE TypeOK'
  BY <1>1 DEF CreateConfig
<1>2. ASSUME NEW c \in Calls, Land(c) PROVE TypeOK'
  BY <1>2 DEF Land
<1>3. ASSUME NEW i \in Indices, CloseConfig(i) PROVE TypeOK'
  BY <1>3 DEF CloseConfig
<1>4. CASE UNCHANGED vars
  BY <1>4 DEF vars
<1>. QED
  BY <1>1, <1>2, <1>3, <1>4 DEF Next

\* Closing moves an index from the used to the closed, so that both together only
\* grow; a new config is at an index that was dense when it was chosen.
LEMMA GapsStep ==
    ASSUME TypeOK, NoGaps, [Next]_vars
    PROVE  NoGaps'
<1>1. ASSUME NEW c \in Calls, NEW i \in Indices, CreateConfig(c, i) PROVE NoGaps'
  BY <1>1 DEF CreateConfig, FirstFree, NoGaps, TypeOK
<1>2. ASSUME NEW c \in Calls, Land(c) PROVE NoGaps'
  BY <1>2 DEF Land, NoGaps, TypeOK
<1>3. ASSUME NEW i \in Indices, CloseConfig(i) PROVE NoGaps'
  BY <1>3 DEF CloseConfig, NoGaps, TypeOK
<1>4. CASE UNCHANGED vars
  BY <1>4 DEF vars, NoGaps
<1>. QED
  BY <1>1, <1>2, <1>3, <1>4 DEF Next

LEMMA LandedStep ==
    ASSUME TypeOK, StillLanded, [Next]_vars
    PROVE  StillLanded'
<1>1. ASSUME NEW c \in Calls, NEW i \in Indices, CreateConfig(c, i) PROVE StillLanded'
  <2>1. Landed' = Landed
    BY <1>1 DEF CreateConfig, TypeOK, Landed
  <2>. QED
    BY <1>1, <2>1 DEF CreateConfig, StillLanded
<1>2. ASSUME NEW c \in Calls, Land(c) PROVE StillLanded'
  BY <1>2 DEF Land, StillLanded, TypeOK, Landed
<1>3. ASSUME NEW i \in Indices, CloseConfig(i) PROVE StillLanded'
  BY <1>3 DEF CloseConfig, StillLanded, Landed
<1>4. CASE UNCHANGED vars
  BY <1>4 DEF vars, StillLanded, Landed
<1>. QED
  BY <1>1, <1>2, <1>3, <1>4 DEF Next

LEMMA TakenStep ==
    ASSUME TypeOK, StillLanded, Taken, [Next]_vars
    PROVE  Taken'
<1>1. ASSUME NEW c \in Calls, NEW i \in Indices, CreateConfig(c, i) PROVE Taken'
  BY <1>1 DEF CreateConfig, FirstFree, Taken, TypeOK, Landed
<1>2. ASSUME NEW c \in Calls, Land(c) PROVE Taken'
  <2>. SUFFICES ASSUME NEW e \in Calls, pc'[e] = "built", index'[e] \in used'
                PROVE  \E d \in Landed' \ before'[e] : index'[d] = index'[e]
    BY DEF Taken
  <2>. QED
    BY <1>2 DEF Land, Taken, StillLanded, TypeOK, Landed
<1>3. ASSUME NEW i \in Indices, CloseConfig(i) PROVE Taken'
  BY <1>3 DEF CloseConfig, Taken, Landed
<1>4. CASE UNCHANGED vars
  BY <1>4 DEF vars, Taken, Landed
<1>. QED
  BY <1>1, <1>2, <1>3, <1>4 DEF Next

LEMMA RivalStep ==
    ASSUME TypeOK, Taken, FailedForARival, [Next]_vars
    PROVE  FailedForARival'
<1>1. ASSUME NEW c \in Calls, NEW i \in Indices, CreateConfig(c, i) PROVE FailedForARival'
  BY <1>1 DEF CreateConfig, FailedForARival, TypeOK, Landed
<1>2. ASSUME NEW c \in Calls, Land(c) PROVE FailedForARival'
  <2>. SUFFICES ASSUME NEW e \in Calls, pc'[e] = "failed"
                PROVE  \E d \in Landed' \ before'[e] : index'[d] = index'[e]
    BY DEF FailedForARival
  <2>1. PICK d \in Landed \ before[e] : index[d] = index[e]
    BY <1>2 DEF Land, Taken, FailedForARival, TypeOK
  <2>2. d \in Landed'
    BY <1>2, <2>1 DEF Land, TypeOK, Landed
  <2>. QED
    BY <1>2, <2>1, <2>2 DEF Land
<1>3. ASSUME NEW i \in Indices, CloseConfig(i) PROVE FailedForARival'
  BY <1>3 DEF CloseConfig, FailedForARival, Landed
<1>4. CASE UNCHANGED vars
  BY <1>4 DEF vars, FailedForARival, Landed
<1>. QED
  BY <1>1, <1>2, <1>3, <1>4 DEF Next

LEMMA StoredStep ==
    ASSUME TypeOK, Stored, [Next]_vars
    PROVE  Stored'
<1>1. ASSUME NEW c \in Calls, NEW i \in Indices, CreateConfig(c, i) PROVE Stored'
  BY <1>1 DEF CreateConfig, Stored, TypeOK, Landed
<1>2. ASSUME NEW c \in Calls, Land(c) PROVE Stored'
  <2>. SUFFICES ASSUME NEW i \in used'
                PROVE  \E d \in Landed' : index'[d] = i /\ account'[i] = Arguments(asked'[d])
    BY DEF Stored, Arguments
  <2>1. CASE i \in used
    <3>1. PICK d \in Landed : index[d] = i /\ account[i] = Arguments(asked[d])
      BY <2>1 DEF Stored
    <3>2. d \in Landed' /\ account'[i] = account[i]
      BY <1>2, <2>1, <3>1 DEF Land, TypeOK, Landed
    <3>. QED
      BY <1>2, <3>1, <3>2 DEF Land
  <2>2. CASE i \notin used
    <3>1. i = index[c] /\ c \in Landed' /\ account'[i] = Arguments(asked[c])
      BY <1>2, <2>2 DEF Land, TypeOK, Landed
    <3>. QED
      BY <1>2, <3>1 DEF Land
  <2>. QED
    BY <2>1, <2>2
<1>3. ASSUME NEW i \in Indices, CloseConfig(i) PROVE Stored'
  BY <1>3 DEF CloseConfig, Stored, Landed, Arguments
<1>4. CASE UNCHANGED vars
  BY <1>4 DEF vars, Stored, Landed, Arguments
<1>. QED
  BY <1>1, <1>2, <1>3, <1>4 DEF Next

\* Basis points come back from the numerators over 100_000.
LEMMA RoundTrip ==
    ASSUME NEW bps \in Nat
    PROVE  ((bps * 10) * 10000) \div FeeDenominator = bps
BY DEF FeeDenominator

LEMMA ConfigInvariant == Spec => []Inv
<1>1. Inv /\ [Next]_vars => Inv'
  BY TypeStep, GapsStep, LandedStep, TakenStep, RivalStep, StoredStep DEF Inv
<1>. QED
  BY <1>1, InvInit, PTL DEF Spec

\* However many createConfig calls race, with configs closed in between, the
\* indices stay dense up to the ones that were closed.
THEOREM ConfigsDense == Spec => []NoGaps
<1>1. Inv => NoGaps
  BY DEF Inv
<1>. QED
  BY <1>1, ConfigInvariant, PTL

\* A createConfig transaction fails only because another call, that had not landed
\* when this one looked, has made the config with its index.
THEOREM ConfigsFailForRivals == Spec => []FailedForARival
<1>1. Inv => FailedForARival
  BY DEF Inv
<1>. QED
  BY <1>1, ConfigInvariant, PTL

\* Whatever fees are asked for, and however calls race: a config shows, through
\* getFeeConfigurations, the fees that a call which landed at its index asked for.
THEOREM ConfigFees == Spec => []FeesAsAsked
<1>1. Inv => FeesAsAsked
  <2>. SUFFICES ASSUME Inv, NEW i \in used
                PROVE  \E c \in Landed :
                         /\ index[c] = i
                         /\ FeeConfiguration(i) = [tradeFeeBps |-> asked[c].tradeFeeBps,
                                                   protocolTradeFeeBps |-> asked[c].protocolFeeBps]
    BY DEF FeesAsAsked
  <2>1. PICK c \in Landed : index[c] = i /\ account[i] = Arguments(asked[c])
    BY DEF Inv, Stored
  <2>2. asked[c].tradeFeeBps \in Nat /\ asked[c].protocolFeeBps \in Nat
    BY ConfigConstants DEF Inv, TypeOK, Landed, Asked
  <2>3. /\ account[i].tradeFeeNumerator = asked[c].tradeFeeBps * 10
        /\ account[i].protocolTradeFeeNumerator = asked[c].protocolFeeBps * 10
    BY <2>1 DEF Arguments
  <2>. QED
    BY <2>1, <2>2, <2>3, RoundTrip DEF FeeConfiguration
<1>. QED
  BY <1>1, ConfigInvariant, PTL

\* The only key that starts at byte 80 of a config is the pool creator's authority.
LEMMA AuthorityField == FieldsAt(ConfigLayout, AuthorityOffset) = {"poolCreatorAuthority"}
<1> DEFINE F(s) == [j \in DOMAIN ConfigLayout |->
                      IF j = 1 THEN Discriminator ELSE s[j - 1] + ConfigLayout[j - 1][2]]
           w == <<8, 40, 48, 80, 112, 113, 121>>
           start == CHOOSE s : s = F(s)
<1>1. DOMAIN ConfigLayout = 1..7 /\ Discriminator = 8 /\ AuthorityOffset = 80 /\ PublicKeySize = 32
  BY DEF ConfigLayout, Discriminator, AuthorityOffset, PublicKeySize
<1>2. /\ ConfigLayout[1][2] = 32 /\ ConfigLayout[2][2] = 8 /\ ConfigLayout[3][2] = 32
      /\ ConfigLayout[4][2] = 32 /\ ConfigLayout[5][2] = 1 /\ ConfigLayout[6][2] = 8
      /\ ConfigLayout[7][2] = 219 /\ ConfigLayout[4][1] = "poolCreatorAuthority"
  BY DEF ConfigLayout, PoolFeesSize, U64, PublicKeySize
<1>3. w = F(w)
  <2>1. \A j \in 1..7 : w[j] = IF j = 1 THEN 8 ELSE w[j - 1] + ConfigLayout[j - 1][2]
    BY <1>2
  <2>2. w = [j \in 1..7 |-> w[j]]
    OBVIOUS
  <2>. QED
    BY <1>1, <2>1, <2>2
<1>4. start = F(start)
  BY <1>3
<1>5. \A j \in 1..7 : start[j] = IF j = 1 THEN 8 ELSE start[j - 1] + ConfigLayout[j - 1][2]
  <2> HIDE DEF start
  <2>1. \A j \in 1..7 : F(start)[j] = IF j = 1 THEN 8 ELSE start[j - 1] + ConfigLayout[j - 1][2]
    BY <1>1
  <2> HIDE DEF F
  <2>. QED
    BY <1>4, <2>1
<1>6. \A j \in 1..7 : Start(ConfigLayout, j) = start[j]
  BY DEF Start
<1> HIDE DEF start
<1>7. /\ start[1] = 8 /\ start[2] = 40 /\ start[3] = 48 /\ start[4] = 80 /\ start[5] = 112
      /\ start[6] = 113 /\ start[7] = 121
  BY <1>2, <1>5
<1>8. {j \in DOMAIN ConfigLayout : Start(ConfigLayout, j) = AuthorityOffset
                                   /\ ConfigLayout[j][2] = PublicKeySize} = {4}
  BY <1>1, <1>2, <1>6, <1>7
<1>. QED
  BY <1>2, <1>8 DEF FieldsAt

\* Whatever configs there are, the search of a pool creator's configs finds those
\* that name the wallet as their authority, and no others.
THEOREM ConfigsFound == Spec => []OwnConfigsFound
<1>1. OwnConfigsFound
  <2>. SUFFICES ASSUME NEW w \in Keys
                PROVE  GetPoolConfigsWithPoolCreatorAuthority(w)
                         = {i \in used : account[i].poolCreatorAuthority = w}
    BY DEF OwnConfigsFound
  <2>1. MemCmp(ConfigLayout, Accounts, AuthorityOffset, w)
          = {a \in Accounts : a.poolCreatorAuthority = w}
    BY AuthorityField DEF MemCmp, Accounts
  <2>2. ASSUME NEW i \in used, account[i].poolCreatorAuthority = w
        PROVE  i \in GetPoolConfigsWithPoolCreatorAuthority(w)
    <3>. DEFINE a == [index |-> i, poolCreatorAuthority |-> account[i].poolCreatorAuthority,
                      vaultConfigKey |-> account[i].vaultConfigKey]
    <3>1. a \in Accounts /\ a.poolCreatorAuthority = w /\ a.index = i
      BY <2>2 DEF Accounts
    <3>. HIDE DEF a
    <3>. QED
      BY <2>1, <3>1 DEF GetPoolConfigsWithPoolCreatorAuthority
  <2>3. ASSUME NEW i \in GetPoolConfigsWithPoolCreatorAuthority(w)
        PROVE  i \in used /\ account[i].poolCreatorAuthority = w
    <3>1. PICK a \in Accounts : a.poolCreatorAuthority = w /\ a.index = i
      BY <2>1, <2>3 DEF GetPoolConfigsWithPoolCreatorAuthority
    <3>2. PICK k \in used : a = [index |-> k, poolCreatorAuthority |-> account[k].poolCreatorAuthority,
                                 vaultConfigKey |-> account[k].vaultConfigKey]
      BY DEF Accounts
    <3>3. a.index = k /\ a.poolCreatorAuthority = account[k].poolCreatorAuthority
      BY <3>2
    <3>. QED
      BY <3>1, <3>3
  <2>. QED
    BY <2>2, <2>3
<1>. QED
  BY <1>1, PTL
=============================================================================
