----------------------------- MODULE BatchProofs -----------------------------
(***************************************************************************)
(* Proofs about BatchLoad, for any pools, lists, chunk size and times.     *)
(*                                                                         *)
(* The search: the layout puts the two mints at the offsets the requests   *)
(* compare (MintFields), an answer lists each pool found once (Listing),   *)
(* and SearchInv says what each side that has answered found, however many *)
(* pools appear meanwhile.                                                 *)
(*                                                                         *)
(* Loading: FlattenSeq by induction, for blocks of one size (FlatBlocks)   *)
(* and for what a filter leaves (FlatFilter); from the arithmetic of the   *)
(* chunks, the answers are again in the order of what was asked            *)
(* (AnswerFacts), as many pools as addresses are the pools of the list     *)
(* (PoolStatesFacts), and the map has, for every address, an entry decoded *)
(* as that address asks for (MapFacts).  LoadInv carries this through the  *)
(* stages.                                                                 *)
(***************************************************************************)
EXTENDS BatchLoad, FiniteSetTheorems, SequenceTheorems, WellFoundedInduction, TLAPS

-----------------------------------------------------------------------------
(* The search                                                              *)

\* The only keys that start at bytes 40 and 72 of a pool are its two mints.
LEMMA MintFields ==
    /\ FieldsAt(PoolLayout, 40) = {"tokenAMint"}
    /\ FieldsAt(PoolLayout, 72) = {"tokenBMint"}
<1> DEFINE F(s) == [j \in DOMAIN PoolLayout |->
                      IF j = 1 THEN Discriminator ELSE s[j - 1] + PoolLayout[j - 1][2]]
           w == <<8, 40, 72, 104, 136, 168, 200, 232, 233, 234, 266, 298, 306, 330, 362, 363, 395>>
           start == CHOOSE s : s = F(s)
<1>1. DOMAIN PoolLayout = 1..17 /\ Discriminator = 8 /\ PublicKeySize = 32
  BY DEF PoolLayout, Discriminator, PublicKeySize
<1>2. /\ PoolLayout[1][2] = 32 /\ PoolLayout[2][2] = 32 /\ PoolLayout[3][2] = 32
      /\ PoolLayout[4][2] = 32 /\ PoolLayout[5][2] = 32 /\ PoolLayout[6][2] = 32
      /\ PoolLayout[7][2] = 32 /\ PoolLayout[8][2] = 1 /\ PoolLayout[9][2] = 1
      /\ PoolLayout[10][2] = 32 /\ PoolLayout[11][2] = 32 /\ PoolLayout[12][2] = 8
      /\ PoolLayout[13][2] = 24 /\ PoolLayout[14][2] = 32 /\ PoolLayout[15][2] = 1
      /\ PoolLayout[16][2] = 32 /\ PoolLayout[17][2] = 8
      /\ PoolLayout[2][1] = "tokenAMint" /\ PoolLayout[3][1] = "tokenBMint"
  BY DEF PoolLayout, PoolFeesSize, U64, PublicKeySize
<1>3. w = F(w)
  <2>1. \A j \in 1..17 : w[j] = IF j = 1 THEN 8 ELSE w[j - 1] + PoolLayout[j - 1][2]
    BY <1>2
  <2>2. w = [j \in 1..17 |-> w[j]]
    OBVIOUS
  <2>. QED
    BY <1>1, <2>1, <2>2
<1>4. start = F(start)
  BY <1>3
<1>5. \A j \in 1..17 : start[j] = IF j = 1 THEN 8 ELSE start[j - 1] + PoolLayout[j - 1][2]
  <2> HIDE DEF start
  <2>1. \A j \in 1..17 : F(start)[j] = IF j = 1 THEN 8 ELSE start[j - 1] + PoolLayout[j - 1][2]
    BY <1>1
  <2> HIDE DEF F
  <2>. QED
    BY <1>4, <2>1
<1>6. \A j \in 1..17 : Start(PoolLayout, j) = start[j]
  BY DEF Start
<1> HIDE DEF start
<1>7. /\ start[1] = 8 /\ start[2] = 40 /\ start[3] = 72
      /\ \A j \in 4..17 : start[j] > 72
  <2>1. start[1] = 8 /\ start[2] = 40 /\ start[3] = 72 /\ start[4] = 104 /\ start[5] = 136
        /\ start[6] = 168 /\ start[7] = 200 /\ start[8] = 232
    BY <1>2, <1>5
  <2>2. start[9] = 233 /\ start[10] = 234 /\ start[11] = 266 /\ start[12] = 298 /\ start[13] = 306
    BY <1>2, <1>5, <2>1
  <2>3. start[14] = 330 /\ start[15] = 362 /\ start[16] = 363 /\ start[17] = 395
    BY <1>2, <1>5, <2>2
  <2>. QED
    BY <2>1, <2>2, <2>3
<1>8. /\ {j \in DOMAIN PoolLayout : Start(PoolLayout, j) = 40 /\ PoolLayout[j][2] = PublicKeySize} = {2}
      /\ {j \in DOMAIN PoolLayout : Start(PoolLayout, j) = 72 /\ PoolLayout[j][2] = PublicKeySize} = {3}
  BY <1>1, <1>2, <1>6, <1>7
<1>. QED
  BY <1>2, <1>8 DEF FieldsAt

\* The mint of a pool that a request compares.
MintOn(p, side) == IF side = "a" THEN PoolData[p].tokenAMint ELSE PoolData[p].tokenBMint

\* A request finds the pools that have the mint on its side.
LEMMA Compared ==
    ASSUME NEW side \in Sides, NEW S, NEW mint, NEW accounts,
           accounts = {[pool |-> p, tokenAMint |-> PoolData[p].tokenAMint,
                        tokenBMint |-> PoolData[p].tokenBMint] : p \in S}
    PROVE  {a.pool : a \in MemCmp(PoolLayout, accounts, OffsetOf(side), mint)}
             = {p \in S : MintOn(p, side) = mint}
<1> DEFINE Account(p) == [pool |-> p, tokenAMint |-> PoolData[p].tokenAMint,
                          tokenBMint |-> PoolData[p].tokenBMint]
           found == {a.pool : a \in MemCmp(PoolLayout, accounts, OffsetOf(side), mint)}
<1>0. accounts = {Account(p) : p \in S}
  OBVIOUS
<1>1. \A p \in S : /\ Account(p).pool = p
                   /\ Account(p).tokenAMint = PoolData[p].tokenAMint
                   /\ Account(p).tokenBMint = PoolData[p].tokenBMint
                   /\ "tokenAMint" \in DOMAIN Account(p)
                   /\ "tokenBMint" \in DOMAIN Account(p)
  OBVIOUS
<1>2. \A a : a \in MemCmp(PoolLayout, accounts, OffsetOf(side), mint)
             <=> \E p \in S : a = Account(p) /\ MintOn(p, side) = mint
  <2>1. CASE side = "a"
    BY <1>0, <1>1, <2>1, MintFields DEF MemCmp, OffsetOf, MintOn
  <2>2. CASE side = "b"
    BY <1>0, <1>1, <2>2, MintFields DEF MemCmp, OffsetOf, MintOn
  <2>. QED
    BY <2>1, <2>2 DEF Sides
<1> HIDE DEF Account
<1>3. \A p : p \in found <=> \E q \in S : p = Account(q).pool /\ MintOn(q, side) = mint
  BY <1>2
<1> HIDE DEF found
<1>4. found = {p \in S : MintOn(p, side) = mint}
  BY <1>1, <1>3
<1>. QED
  BY <1>4 DEF Account, found

\* A sequence of the members of a finite set, each once, has all of them.
LEMMA Listing ==
    ASSUME NEW S, IsFiniteSet(S), NEW order \in SetToSeqs(S)
    PROVE  order \in Seq(S) /\ IsInjective(order) /\ ToSet(order) = S
<1>1. Cardinality(S) \in Nat
  BY FS_CardinalityType
<1>2. order \in Injection(1..Cardinality(S), S)
  BY DEF SetToSeqs, Injection, IsInjective
<1>3. Cardinality(1..Cardinality(S)) = Cardinality(S)
  BY <1>1, FS_Interval
<1>4. order \in Surjection(1..Cardinality(S), S)
  BY <1>2, <1>3, FS_Injection
<1>5. order \in [1..Cardinality(S) -> S]
  BY DEF SetToSeqs
<1>6. ToSet(order) = S
  BY <1>4, <1>5 DEF Surjection, ToSet
<1>. QED
  BY <1>1, <1>2, <1>5, <1>6 DEF Injection, IsInjective

\* What has been found on a side: once each, pools that have the mint there, and
\* all of those that were there when the search was called.
Searched(side) ==
    LET order == search.found[side]
    IN  /\ order \in Seq(Pools) /\ IsInjective(order)
        /\ \A p \in ToSet(order) : MintOn(p, side) = search.mint
        /\ \A p \in search.before : MintOn(p, side) = search.mint => p \in ToSet(order)

SearchInv ==
    /\ DOMAIN exists \subseteq Pools
    /\ search = [mint |-> search.mint, before |-> search.before,
                 found |-> search.found, left |-> search.left]
    /\ DOMAIN search.found = Sides
    /\ search.found = [side \in Sides |-> search.found[side]]
    /\ stage = "search" => /\ search.before \subseteq DOMAIN exists
                           /\ \A side \in Sides \ search.left : Searched(side)

LEMMA SearchInit == Init => SearchInv
BY DEF Init, SearchInv

LEMMA SearchStep ==
    ASSUME SearchInv, [Next]_vars
    PROVE  SearchInv'
<1> USE DEF SearchInv
<1>1. ASSUME UNCHANGED <<exists, search>>, stage' # "search" \/ stage' = stage PROVE SearchInv'
  BY <1>1 DEF Searched, MintOn
<1>2. ASSUME NEW p \in Pools, CreatePool(p) PROVE SearchInv'
  <2>1. DOMAIN exists' = DOMAIN exists \cup {p}
    BY <1>2 DEF CreatePool
  <2>. QED
    BY <1>2, <2>1 DEF CreatePool, Searched, MintOn
<1>3. ASSUME NEW m \in Mints, SearchPoolsByToken(m) PROVE SearchInv'
  BY <1>3 DEF SearchPoolsByToken
<1>4. ASSUME NEW side \in Sides, ServeSearch(side) PROVE SearchInv'
  <2> DEFINE found == {p \in DOMAIN exists : MintOn(p, side) = search.mint}
             accounts == {[pool |-> p, tokenAMint |-> PoolData[p].tokenAMint,
                           tokenBMint |-> PoolData[p].tokenBMint] : p \in DOMAIN exists}
  <2>0. {a.pool : a \in MemCmp(PoolLayout, accounts, OffsetOf(side), search.mint)} = found
    <3> HIDE DEF SearchInv
    <3>1. \A S, mint, acc : acc = {[pool |-> p, tokenAMint |-> PoolData[p].tokenAMint,
                       tokenBMint |-> PoolData[p].tokenBMint] : p \in S} =>
            {a.pool : a \in MemCmp(PoolLayout, acc, OffsetOf(side), mint)} = {p \in S : MintOn(p, side) = mint}
      BY Compared
    <3>. QED
      BY <3>1, Zenon
  <2>1. PICK order \in SetToSeqs(found) :
          search' = [search EXCEPT !.found[side] = order, !.left = @ \ {side}]
    <3> HIDE DEF found
    <3>1. \E order \in SetToSeqs({a.pool : a \in MemCmp(PoolLayout, accounts, OffsetOf(side), search.mint)}) :
             search' = [search EXCEPT !.found[side] = order, !.left = @ \ {side}]
      BY <1>4 DEF ServeSearch
    <3>. QED
      BY <2>0, <3>1
  <2>2. IsFiniteSet(found)
    BY BatchConstants, FS_Subset
  <2>3. order \in Seq(found) /\ IsInjective(order) /\ ToSet(order) = found
    BY <2>2, Listing
  <2>4. /\ search'.mint = search.mint /\ search'.before = search.before
        /\ search'.left = search.left \ {side}
        /\ search'.found = [search.found EXCEPT ![side] = order]
        /\ search' = [mint |-> search.mint, before |-> search.before,
                      found |-> [search.found EXCEPT ![side] = order], left |-> search.left \ {side}]
    BY <2>1
  <2>5. order \in Seq(Pools)
    BY <2>3
  <2>6. stage = "search" /\ UNCHANGED <<exists, stage>>
    BY <1>4 DEF ServeSearch
  <2>7. ASSUME NEW other \in Sides \ search'.left PROVE Searched(other)'
    <3>1. CASE other = side
      <4>1. search'.found[other] = order
        BY <2>4, <3>1
      <4>. QED
        BY <2>3, <2>4, <2>5, <2>6, <3>1, <4>1 DEF Searched, MintOn
    <3>2. CASE other # side
      <4>1. search'.found[other] = search.found[other] /\ other \in Sides \ search.left
        BY <2>4, <2>7, <3>2
      <4>2. Searched(other)
        BY <2>6, <4>1
      <4>. QED
        BY <2>4, <4>1, <4>2 DEF Searched, MintOn
    <3>. QED
      BY <3>1, <3>2
  <2>. QED
    BY <2>4, <2>6, <2>7
<1>5. ASSUME Next PROVE SearchInv'
  <2>1. CASE Tick
    BY <1>1, <2>1 DEF Tick
  <2>2. ASSUME NEW l, CreateMultiple(l) PROVE SearchInv'
    BY <1>1, <2>2 DEF CreateMultiple
  <2>3. ASSUME NEW i, ServeChunk(i) PROVE SearchInv'
    BY <1>1, <2>3 DEF ServeChunk
  <2>4. CASE FailChunk
    BY <1>1, <2>4 DEF FailChunk
  <2>5. CASE GetAllPoolState
    BY <1>1, <2>5 DEF GetAllPoolState
  <2>6. CASE GetLpSupplies \/ FetchAccounts \/ GetDepegAccounts \/ BuildAmmImpls
    BY <1>1, <2>6 DEF GetLpSupplies, FetchAccounts, GetDepegAccounts, BuildAmmImpls
  <2>. QED
    BY <1>2, <1>3, <1>4, <1>5, <2>1, <2>2, <2>3, <2>4, <2>5, <2>6 DEF Next
<1>6. CASE UNCHANGED vars
  BY <1>1, <1>6 DEF vars
<1>. QED
  BY <1>5, <1>6

LEMMA SearchInvariant == Spec => []SearchInv
BY SearchInit, SearchStep, PTL DEF Spec

\* Whatever pools there are, and whichever appear during the search and between its
\* two requests: it lists every pool of the mint there was at the call, once.
THEOREM SearchCompleteAlways == Spec => []SearchComplete
<1>1. SearchInv => SearchComplete
  <2> SUFFICES ASSUME SearchInv, stage = "search", search.left = {}
               PROVE  SearchComplete
    BY DEF SearchComplete
  <2> DEFINE fa == search.found.a
             fb == search.found.b
  <2>1. Searched("a") /\ Searched("b")
    BY DEF SearchInv, Sides
  <2>2. /\ fa \in Seq(Pools) /\ IsInjective(fa)
        /\ \A p \in ToSet(fa) : PoolData[p].tokenAMint = search.mint
        /\ \A p \in search.before : PoolData[p].tokenAMint = search.mint => p \in ToSet(fa)
    BY <2>1 DEF Searched, MintOn
  <2>3. /\ fb \in Seq(Pools) /\ IsInjective(fb)
        /\ \A p \in ToSet(fb) : PoolData[p].tokenBMint = search.mint
        /\ \A p \in search.before : PoolData[p].tokenBMint = search.mint => p \in ToSet(fb)
    BY <2>1 DEF Searched, MintOn
  <2> HIDE DEF fa, fb
  <2>4. Found = fa \o fb
    BY DEF Found, fa, fb
  <2>5. /\ Len(fa) \in Nat /\ Len(fb) \in Nat /\ DOMAIN Found = 1..(Len(fa) + Len(fb))
        /\ DOMAIN fa = 1..Len(fa) /\ DOMAIN fb = 1..Len(fb)
        /\ \A i \in DOMAIN Found : Found[i] = IF i <= Len(fa) THEN fa[i] ELSE fb[i - Len(fa)]
    BY <2>2, <2>3, <2>4
  <2>6. ToSet(Found) = ToSet(fa) \cup ToSet(fb)
    <3>1. \A p \in ToSet(fa) : p \in ToSet(Found)
      BY <2>5 DEF ToSet
    <3>2. ASSUME NEW p \in ToSet(fb) PROVE p \in ToSet(Found)
      <4>1. PICK i \in 1..Len(fb) : p = fb[i]
        BY <2>5 DEF ToSet
      <4>2. Len(fa) + i \in DOMAIN Found /\ ~(Len(fa) + i <= Len(fa)) /\ (Len(fa) + i) - Len(fa) = i
        BY <2>5
      <4>3. Found[Len(fa) + i] = p
        BY <2>5, <4>1, <4>2
      <4>. QED
        BY <4>2, <4>3 DEF ToSet
    <3>3. ASSUME NEW p \in ToSet(Found) PROVE p \in ToSet(fa) \cup ToSet(fb)
      <4>1. PICK i \in DOMAIN Found : p = Found[i]
        BY DEF ToSet
      <4>2. i <= Len(fa) => i \in DOMAIN fa
        BY <2>5
      <4>3. ~(i <= Len(fa)) => i - Len(fa) \in DOMAIN fb
        BY <2>5
      <4>. QED
        BY <2>5, <4>1, <4>2, <4>3 DEF ToSet
    <3>. QED
      BY <3>1, <3>2, <3>3
  <2>7. ToSet(fa) \cap ToSet(fb) = {}
    <3>1. \A p \in ToSet(fa) : p \in Pools
      BY <2>2, <2>5 DEF ToSet
    <3>. QED
      BY <2>2, <2>3, <3>1, BatchConstants
  <2>8. IsInjective(Found)
    <3> SUFFICES ASSUME NEW i \in DOMAIN Found, NEW j \in DOMAIN Found, Found[i] = Found[j]
                 PROVE  i = j
      BY DEF IsInjective
    <3>1. CASE i <= Len(fa) /\ j <= Len(fa)
      <4>1. i \in DOMAIN fa /\ j \in DOMAIN fa
        BY <2>5, <3>1
      <4>. QED
        BY <2>2, <2>5, <3>1, <4>1 DEF IsInjective
    <3>2. CASE ~(i <= Len(fa)) /\ ~(j <= Len(fa))
      <4>1. i - Len(fa) \in DOMAIN fb /\ j - Len(fa) \in DOMAIN fb
        BY <2>5, <3>2
      <4>2. i - Len(fa) = j - Len(fa)
        BY <2>3, <2>5, <3>2, <4>1 DEF IsInjective
      <4>. QED
        BY <2>5, <4>2
    <3>3. CASE i <= Len(fa) /\ ~(j <= Len(fa))
      <4>1. i \in DOMAIN fa /\ j - Len(fa) \in DOMAIN fb
        BY <2>5, <3>3
      <4>. QED
        BY <2>5, <2>7, <3>3, <4>1 DEF ToSet
    <3>4. CASE ~(i <= Len(fa)) /\ j <= Len(fa)
      <4>1. j \in DOMAIN fa /\ i - Len(fa) \in DOMAIN fb
        BY <2>5, <3>4
      <4>. QED
        BY <2>5, <2>7, <3>4, <4>1 DEF ToSet
    <3>. QED
      BY <3>1, <3>2, <3>3, <3>4
  <2>. QED
    BY <2>2, <2>3, <2>6, <2>8 DEF SearchComplete
<1>. QED
  BY <1>1, SearchInvariant, PTL

-----------------------------------------------------------------------------
(* Sequences put together                                                  *)

\* Induction on the natural numbers, as a statement about sets.
LEMMA SetInduction ==
    ASSUME NEW S, 0 \in S, \A n \in Nat : n \in S => n + 1 \in S
    PROVE  Nat \subseteq S
<1> DEFINE R == {ss \in Nat \X Nat : ss[1] < ss[2]}
           T == Nat \ S
<1> SUFFICES ASSUME T # {} PROVE FALSE
  OBVIOUS
<1>1. IsWellFoundedOn(R, Nat)
  BY NatLessThanWellFounded DEF OpToRel
<1>2. PICK m \in T : \A k \in T : ~(<<k, m>> \in R)
  BY <1>1, WFMin
<1>3. \A k \in T : ~(k < m)
  <2> SUFFICES ASSUME NEW k \in T, k < m PROVE FALSE
    OBVIOUS
  <2>1. k \in Nat /\ m \in Nat
    OBVIOUS
  <2>2. <<k, m>> \in R
    BY <2>1
  <2>. QED
    BY <1>2, <2>2
<1>4. m \in Nat /\ m # 0 /\ m - 1 \in Nat
  OBVIOUS
<1>5. m - 1 \in T
  <2>1. (m - 1) + 1 = m
    BY <1>4
  <2>. QED
    BY <1>4, <2>1
<1>. QED
  BY <1>3, <1>4, <1>5

\* The sequences that flattening passes through exist.
LEMMA FlatDefined ==
    ASSUME NEW seqs
    PROVE  \A n \in Nat : n > 0 =>
             \E g : g = [i \in 1..n |-> IF i = 1 THEN seqs[i] ELSE g[i - 1] \o seqs[i]]
<1> DEFINE P(n) == \E g : g = [i \in 1..n |-> IF i = 1 THEN seqs[i] ELSE g[i - 1] \o seqs[i]]
           S == {n \in Nat : n > 0 => P(n)}
<1>1. 0 \in S
  OBVIOUS
<1>2. ASSUME NEW n \in Nat, n \in S PROVE n + 1 \in S
  <2>0. n > 0 => P(n)
    BY <1>2
  <2> SUFFICES P(n + 1)
    <3> HIDE DEF P
    <3>. QED
      OBVIOUS
  <2>1. CASE n = 0
    <3> DEFINE g == [i \in 1..1 |-> seqs[i]]
    <3>1. g = [i \in 1..1 |-> IF i = 1 THEN seqs[i] ELSE g[i - 1] \o seqs[i]]
      OBVIOUS
    <3>2. P(1)
      BY <3>1
    <3>3. n + 1 = 1
      BY <2>1
    <3> HIDE DEF P
    <3>. QED
      BY <3>2, <3>3
  <2>2. CASE n > 0
    <3>1. PICK g : g = [i \in 1..n |-> IF i = 1 THEN seqs[i] ELSE g[i - 1] \o seqs[i]]
      BY <2>0, <2>2
    <3> DEFINE h == [i \in 1..(n + 1) |-> IF i = n + 1 THEN g[n] \o seqs[n + 1] ELSE g[i]]
    <3>2. ASSUME NEW i \in 1..(n + 1)
          PROVE  h[i] = IF i = 1 THEN seqs[i] ELSE h[i - 1] \o seqs[i]
      <4>1. CASE i = 1
        BY <2>2, <3>1, <4>1
      <4>2. CASE i = n + 1
        <5>1. i - 1 = n /\ i # 1 /\ n \in 1..(n + 1) /\ n # n + 1
          BY <2>2, <4>2
        <5>2. h[n] = g[n] /\ h[i] = g[n] \o seqs[n + 1]
          BY <4>2, <5>1
        <5>. QED
          BY <4>2, <5>1, <5>2
      <4>3. CASE i # 1 /\ i # n + 1
        <5>1. i \in 1..n /\ i - 1 \in 1..n /\ i - 1 \in 1..(n + 1) /\ i - 1 # n + 1
          BY <4>3
        <5>2. h[i] = g[i] /\ h[i - 1] = g[i - 1]
          BY <4>3, <5>1
        <5>3. g[i] = g[i - 1] \o seqs[i]
          BY <3>1, <4>3, <5>1
        <5>. QED
          BY <4>3, <5>2, <5>3
      <4>. QED
        BY <4>1, <4>2, <4>3
    <3> HIDE DEF h
    <3>3. h = [i \in 1..(n + 1) |-> h[i]]
      BY DEF h
    <3>4. h = [i \in 1..(n + 1) |-> IF i = 1 THEN seqs[i] ELSE h[i - 1] \o seqs[i]]
      BY <3>2, <3>3
    <3>. QED
      BY <3>4
  <2> HIDE DEF P
  <2>. QED
    BY <2>1, <2>2
<1> HIDE DEF S
<1>3. Nat \subseteq S
  BY <1>1, <1>2, SetInduction
<1>. QED
  BY <1>3 DEF S

\* FlattenSeq by its recursive equation.
LEMMA FlatSteps ==
    ASSUME NEW seqs, Len(seqs) \in Nat, Len(seqs) > 0
    PROVE  \E g : /\ \A i \in 1..Len(seqs) : g[i] = IF i = 1 THEN seqs[i] ELSE g[i - 1] \o seqs[i]
                  /\ FlattenSeq(seqs) = g[Len(seqs)]
<1> DEFINE g == CHOOSE g : g = [i \in 1..Len(seqs) |-> IF i = 1 THEN seqs[i] ELSE g[i - 1] \o seqs[i]]
<1>1. g = [i \in 1..Len(seqs) |-> IF i = 1 THEN seqs[i] ELSE g[i - 1] \o seqs[i]]
  BY FlatDefined
<1>2. FlattenSeq(seqs) = g[Len(seqs)]
  BY DEF FlattenSeq
<1> HIDE DEF g
<1>3. \A i \in 1..Len(seqs) : g[i] = IF i = 1 THEN seqs[i] ELSE g[i - 1] \o seqs[i]
  BY <1>1
<1>. QED
  BY <1>2, <1>3

\* Multiplication by a natural number is monotone.
LEMMA MulMono ==
    ASSUME NEW a \in Nat, NEW b \in Nat, NEW c \in Nat, a <= b
    PROVE  a * c <= b * c
OBVIOUS

\* A floor division lies within one divisor of the exact quotient.
LEMMA DivBounds ==
    ASSUME NEW a \in Nat, NEW b \in Nat \ {0}
    PROVE  /\ a \div b \in Nat
           /\ b * (a \div b) <= a
           /\ a < b * (a \div b) + b
OBVIOUS

\* Blocks of d entries each, the last perhaps of another length.
Blocks(seqs, d, T) ==
    /\ Len(seqs) \in Nat /\ Len(seqs) > 0
    /\ \A i \in 1..Len(seqs) : seqs[i] \in Seq(T)
    /\ \A i \in 1..Len(seqs) : i < Len(seqs) => Len(seqs[i]) = d

\* The j-th entry of the i-th block is at the place (i - 1) * d + j.
Joined(flat, seqs, d, T) ==
    /\ flat \in Seq(T)
    /\ Len(flat) = (Len(seqs) - 1) * d + Len(seqs[Len(seqs)])
    /\ \A i \in 1..Len(seqs) : \A j \in 1..Len(seqs[i]) : flat[(i - 1) * d + j] = seqs[i][j]

LEMMA FlatBlocks ==
    ASSUME NEW T, NEW seqs, NEW d \in Nat, Blocks(seqs, d, T)
    PROVE  Joined(FlattenSeq(seqs), seqs, d, T)
<1> DEFINE n == Len(seqs)
<1>1. PICK g : /\ \A i \in 1..n : g[i] = IF i = 1 THEN seqs[i] ELSE g[i - 1] \o seqs[i]
               /\ FlattenSeq(seqs) = g[n]
  BY FlatSteps DEF Blocks
<1> HIDE DEF n
<1> DEFINE P(k) == /\ g[k] \in Seq(T)
                   /\ Len(g[k]) = (k - 1) * d + Len(seqs[k])
                   /\ \A i \in 1..k : \A j \in 1..Len(seqs[i]) : g[k][(i - 1) * d + j] = seqs[i][j]
           S == {k \in Nat : 0 < k /\ k <= n => P(k)}
<1>n. n \in Nat /\ n > 0 /\ (\A i \in 1..n : seqs[i] \in Seq(T))
      /\ (\A i \in 1..n : i < n => Len(seqs[i]) = d)
  BY DEF n, Blocks
<1>2. 0 \in S
  OBVIOUS
<1>3. ASSUME NEW k \in Nat, k \in S PROVE k + 1 \in S
  <2>0. 0 < k /\ k <= n => P(k)
    BY <1>3
  <2> SUFFICES ASSUME k + 1 <= n PROVE P(k + 1)
    <3> HIDE DEF P
    <3>. QED
      OBVIOUS
  <2>1. CASE k = 0
    <3>1. g[1] = seqs[1] /\ seqs[1] \in Seq(T)
      BY <1>1, <1>n
    <3>2. Len(g[1]) = (1 - 1) * d + Len(seqs[1])
      <4>1. Len(seqs[1]) \in Nat /\ (1 - 1) * d = 0
        BY <3>1
      <4> DEFINE l == Len(seqs[1])
                 z == (1 - 1) * d
      <4>2. l \in Nat /\ z = 0 /\ Len(g[1]) = l
        BY <3>1, <4>1
      <4> HIDE DEF l, z
      <4>3. Len(g[1]) = z + l
        BY <4>2
      <4>. QED
        BY <4>3 DEF l, z
    <3>3. ASSUME NEW j \in 1..Len(seqs[1]) PROVE g[1][(1 - 1) * d + j] = seqs[1][j]
      <4>1. (1 - 1) * d + j = j
        BY <3>1
      <4>. QED
        BY <3>1, <4>1
    <3>4. 1..1 = {1}
      OBVIOUS
    <3>5. P(1)
      BY <3>1, <3>2, <3>3, <3>4
    <3>6. k + 1 = 1
      BY <2>1
    <3> HIDE DEF P
    <3>. QED
      BY <3>5, <3>6
  <2>2. CASE k > 0
    <3>1. k \in 1..n /\ k + 1 \in 1..n /\ k + 1 # 1 /\ (k + 1) - 1 = k /\ k < n
      BY <2>2, <1>n
    <3>2. g[k + 1] = g[k] \o seqs[k + 1]
      BY <1>1, <3>1
    <3>3. P(k)
      <4> HIDE DEF P
      <4>. QED
        BY <2>0, <2>2, <3>1
    <3>4. Len(seqs[k]) = d /\ seqs[k + 1] \in Seq(T)
      BY <1>n, <3>1
    <3>5. Len(g[k]) = k * d
      BY <3>3, <3>4
    <3> DEFINE s == seqs[k + 1]
               t == g[k]
    <3>6. s \in Seq(T) /\ t \in Seq(T) /\ Len(t) = k * d
      BY <3>3, <3>4, <3>5
    <3> HIDE DEF s, t
    <3>7. /\ g[k + 1] \in Seq(T)
          /\ Len(g[k + 1]) = k * d + Len(s)
          /\ \A i \in 1..(k * d + Len(s)) : g[k + 1][i] = IF i <= k * d THEN t[i] ELSE s[i - k * d]
      <4>1. g[k + 1] = t \o s
        BY <3>2 DEF s, t
      <4> HIDE DEF P
      <4>. QED
        <5>1. /\ t \o s \in Seq(T)
              /\ Len(t \o s) = Len(t) + Len(s)
              /\ \A i \in 1..Len(t) + Len(s) : (t \o s)[i] = IF i <= Len(t) THEN t[i] ELSE s[i - Len(t)]
          BY <3>6, ConcatProperties, Zenon
        <5>. QED
          BY <3>6, <4>1, <5>1, Zenon
    <3>8. ASSUME NEW i \in 1..(k + 1), NEW j \in 1..Len(seqs[i])
          PROVE  g[k + 1][(i - 1) * d + j] = seqs[i][j]
      <4>1. CASE i = k + 1
        <5>1. j \in Nat /\ j >= 1 /\ j <= Len(s) /\ Len(s) \in Nat /\ k * d \in Nat
          BY <3>6, <4>1 DEF s
        <5> DEFINE q == k * d
        <5>2. q \in Nat /\ (i - 1) * d = q
          BY <4>1
        <5> HIDE DEF q
        <5>3. q + j \in 1..(q + Len(s)) /\ ~(q + j <= q) /\ (q + j) - q = j
          BY <5>1, <5>2
        <5>. QED
          BY <3>7, <4>1, <5>2, <5>3 DEF q, s
      <4>2. CASE i # k + 1
        <5>1. i \in 1..k /\ i \in 1..n /\ i < n
          BY <1>n, <3>1, <4>2
        <5>2. Len(seqs[i]) = d
          BY <1>n, <5>1
        <5>3. j \in Nat /\ j >= 1 /\ j <= d
          BY <5>2
        <5>4. (i - 1) * d + d = i * d /\ i * d <= k * d /\ (i - 1) * d \in Nat /\ k * d \in Nat
          <6>1. i \in Nat /\ i <= k /\ i - 1 \in Nat
            BY <5>1
          <6>. QED
            BY <6>1, MulMono
        <5> DEFINE x == (i - 1) * d
                   q == k * d
        <5>5. x + j \in 1..(q + Len(s)) /\ x + j <= q
          <6>1. x \in Nat /\ q \in Nat /\ x + d <= q /\ Len(s) \in Nat
            BY <3>6, <5>4
          <6> HIDE DEF x, q
          <6>. QED
            BY <5>3, <6>1
        <5>6. g[k + 1][x + j] = t[x + j]
          <6> HIDE DEF x
          <6>. QED
            BY <3>7, <5>5
        <5>7. t[x + j] = seqs[i][j]
          BY <3>3, <5>1 DEF t
        <5>. QED
          BY <5>6, <5>7
      <4>. QED
        BY <4>1, <4>2
    <3>9. Len(g[k + 1]) = ((k + 1) - 1) * d + Len(seqs[k + 1])
      BY <3>1, <3>7 DEF s
    <3>. QED
      BY <3>7, <3>8, <3>9
  <2> HIDE DEF P
  <2>. QED
    BY <2>1, <2>2
<1> HIDE DEF S, P
<1>4. n \in S
  BY <1>2, <1>3, <1>n, SetInduction
<1>5. P(n)
  BY <1>4, <1>n DEF S
<1>. QED
  BY <1>1, <1>5 DEF n, P, Joined

\* Sequences of at most one entry.
Options(seqs, T) ==
    /\ Len(seqs) \in Nat /\ Len(seqs) > 0
    /\ \A i \in 1..Len(seqs) : seqs[i] \in Seq(T) /\ Len(seqs[i]) <= 1

\* As many entries as sequences only if each has one, and then in their order.
Filtered(flat, seqs, T) ==
    /\ flat \in Seq(T)
    /\ Len(flat) = Len(seqs) => \A i \in 1..Len(seqs) : Len(seqs[i]) = 1 /\ flat[i] = seqs[i][1]

LEMMA FlatFilter ==
    ASSUME NEW T, NEW seqs, Options(seqs, T)
    PROVE  Filtered(FlattenSeq(seqs), seqs, T)
<1> DEFINE n == Len(seqs)
<1>1. PICK g : /\ \A i \in 1..n : g[i] = IF i = 1 THEN seqs[i] ELSE g[i - 1] \o seqs[i]
               /\ FlattenSeq(seqs) = g[n]
  BY FlatSteps DEF Options
<1> HIDE DEF n
<1> DEFINE P(k) == /\ g[k] \in Seq(T)
                   /\ Len(g[k]) <= k
                   /\ Len(g[k]) = k => \A i \in 1..k : Len(seqs[i]) = 1 /\ g[k][i] = seqs[i][1]
           S == {k \in Nat : 0 < k /\ k <= n => P(k)}
<1>n. n \in Nat /\ n > 0 /\ \A i \in 1..n : seqs[i] \in Seq(T) /\ Len(seqs[i]) <= 1
  BY DEF n, Options
<1>2. 0 \in S
  OBVIOUS
<1>3. ASSUME NEW k \in Nat, k \in S PROVE k + 1 \in S
  <2>0. 0 < k /\ k <= n => P(k)
    BY <1>3
  <2> SUFFICES ASSUME k + 1 <= n PROVE P(k + 1)
    <3> HIDE DEF P
    <3>. QED
      OBVIOUS
  <2>1. CASE k = 0
    <3>1. g[1] = seqs[1] /\ seqs[1] \in Seq(T) /\ Len(seqs[1]) <= 1
      BY <1>1, <1>n
    <3>2. 1..1 = {1}
      OBVIOUS
    <3>3. P(1)
      BY <3>1, <3>2
    <3>4. k + 1 = 1
      BY <2>1
    <3> HIDE DEF P
    <3>. QED
      BY <3>3, <3>4
  <2>2. CASE k > 0
    <3>1. k \in 1..n /\ k + 1 \in 1..n /\ k + 1 # 1 /\ (k + 1) - 1 = k /\ k < n
      BY <2>2, <1>n
    <3>2. g[k + 1] = g[k] \o seqs[k + 1]
      BY <1>1, <3>1
    <3>3. P(k)
      <4> HIDE DEF P
      <4>. QED
        BY <2>0, <2>2, <3>1
    <3> DEFINE s == seqs[k + 1]
               t == g[k]
    <3>4. s \in Seq(T) /\ t \in Seq(T) /\ Len(t) <= k /\ Len(s) <= 1 /\ Len(t) \in Nat /\ Len(s) \in Nat
      BY <1>n, <3>1, <3>3
    <3> HIDE DEF s, t
    <3>5. /\ t \o s \in Seq(T)
          /\ Len(t \o s) = Len(t) + Len(s)
          /\ \A i \in 1..Len(t) + Len(s) : (t \o s)[i] = IF i <= Len(t) THEN t[i] ELSE s[i - Len(t)]
      BY <3>4, ConcatProperties, Zenon
    <3>6. g[k + 1] = t \o s
      BY <3>2 DEF s, t
    <3>7. g[k + 1] \in Seq(T) /\ Len(g[k + 1]) <= k + 1
      BY <3>4, <3>5, <3>6
    <3>8. ASSUME Len(g[k + 1]) = k + 1, NEW i \in 1..(k + 1)
          PROVE  Len(seqs[i]) = 1 /\ g[k + 1][i] = seqs[i][1]
      <4>1. Len(t) = k /\ Len(s) = 1
        <5>1. Len(t) + Len(s) = k + 1
          BY <3>5, <3>6, <3>8
        <5> DEFINE x == Len(t)
                   y == Len(s)
        <5>2. x \in Nat /\ y \in Nat /\ x <= k /\ y <= 1 /\ x + y = k + 1
          BY <3>4, <5>1
        <5> HIDE DEF x, y, P
        <5>3. x = k /\ y = 1
          BY <5>2
        <5>. QED
          BY <5>3 DEF x, y
      <4>2. CASE i = k + 1
        <5>1. i \in 1..Len(t) + Len(s) /\ ~(i <= Len(t)) /\ i - Len(t) = 1
          BY <4>1, <4>2
        <5>. QED
          BY <3>5, <3>6, <4>1, <4>2, <5>1 DEF s
      <4>3. CASE i # k + 1
        <5>1. i \in 1..Len(t) + Len(s) /\ i <= Len(t) /\ i \in 1..k
          BY <4>1, <4>3
        <5>2. Len(seqs[i]) = 1 /\ t[i] = seqs[i][1]
          BY <3>3, <4>1, <5>1 DEF t
        <5>. QED
          BY <3>5, <3>6, <5>1, <5>2
      <4>. QED
        BY <4>2, <4>3
    <3>. QED
      BY <3>7, <3>8
  <2> HIDE DEF P
  <2>. QED
    BY <2>1, <2>2
<1> HIDE DEF S, P
<1>4. n \in S
  BY <1>2, <1>3, <1>n, SetInduction
<1>5. P(n)
  BY <1>4, <1>n DEF S
<1>. QED
  BY <1>1, <1>5 DEF n, P, Filtered

\* The number of chunks.
LEMMA CeilDivFacts ==
    ASSUME NEW n \in Nat, NEW d \in Nat \ {0}
    PROVE  /\ CeilDiv(n, d) \in Nat
           /\ n <= CeilDiv(n, d) * d
           /\ n = 0 => CeilDiv(n, d) = 0
           /\ n > 0 => CeilDiv(n, d) > 0 /\ (CeilDiv(n, d) - 1) * d < n
           /\ n > 0 /\ n <= d => CeilDiv(n, d) = 1
<1> DEFINE c == (n + d - 1) \div d
           m == n + d - 1
<1>1. m \in Nat
  OBVIOUS
<1>2. c \in Nat /\ d * c <= m /\ m < d * c + d
  <2> HIDE DEF m
  <2>1. m \div d \in Nat /\ d * (m \div d) <= m /\ m < d * (m \div d) + d
    BY <1>1, DivBounds
  <2>. QED
    BY <2>1 DEF m
<1> HIDE DEF c
<1>3. n <= c * d
  BY <1>2
<1>4. (c - 1) * d < n
  BY <1>2
<1>5. n > 0 => c > 0
  BY <1>2, <1>3
<1>6. n = 0 => c = 0
  <2> SUFFICES ASSUME n = 0, c > 0 PROVE FALSE
    BY <1>2
  <2>1. 1 * d <= c * d
    BY <1>2, MulMono
  <2>. QED
    BY <1>2, <2>1
<1>7. n > 0 /\ n <= d => c = 1
  <2> SUFFICES ASSUME n > 0, n <= d, c > 1 PROVE FALSE
    BY <1>2, <1>5
  <2>1. 2 * d <= c * d
    BY <1>2, MulMono
  <2>. QED
    BY <1>2, <2>1
<1>8. CeilDiv(n, d) = c
  BY DEF CeilDiv, c
<1>. QED
  BY <1>2, <1>3, <1>4, <1>5, <1>6, <1>7, <1>8

\* The chunks: all but the last of the full size, each with its part of the array.
LEMMA ChunkFacts ==
    ASSUME NEW T, NEW array \in Seq(T), NEW c, c = CeilDiv(Len(array), ChunkSize)
    PROVE  /\ DOMAIN Chunks(array) = 1..c /\ Len(Chunks(array)) = c
           /\ \A i \in 1..c :
                /\ Chunks(array)[i] \in Seq(T)
                /\ Len(Chunks(array)[i]) = IF i < c THEN ChunkSize ELSE Len(array) - (c - 1) * ChunkSize
                /\ \A j \in 1..Len(Chunks(array)[i]) :
                     Chunks(array)[i][j] = array[(i - 1) * ChunkSize + j]
<1> DEFINE n == Len(array)
           d == ChunkSize
<1>1. n \in Nat /\ d \in Nat \ {0}
  BY BatchConstants
<1>2. c \in Nat /\ n <= c * d /\ (n = 0 => c = 0) /\ (n > 0 => c > 0 /\ (c - 1) * d < n)
  BY <1>1, CeilDivFacts
<1> DEFINE hi(i) == IF i * d > n THEN n ELSE i * d
<1>3. Chunks(array) = [i \in 1..c |-> SubSeq(array, (i - 1) * d + 1, hi(i))]
  BY DEF Chunks
<1>4. ASSUME NEW i \in 1..c
      PROVE  /\ Chunks(array)[i] \in Seq(T)
             /\ Len(Chunks(array)[i]) = IF i < c THEN d ELSE n - (c - 1) * d
             /\ \A j \in 1..Len(Chunks(array)[i]) : Chunks(array)[i][j] = array[(i - 1) * d + j]
  <2> DEFINE lo == (i - 1) * d
             h == hi(i)
  <2>1. lo \in Nat /\ lo + d = i * d /\ n > 0 /\ i \in Nat /\ i - 1 \in Nat
    BY <1>1, <1>2
  <2>2. lo < n
    <3>1. lo <= (c - 1) * d
      <4>1. i - 1 <= c - 1 /\ c - 1 \in Nat
        BY <1>2
      <4>. QED
        BY <1>1, <2>1, <4>1, MulMono
    <3>2. (c - 1) * d \in Nat /\ (c - 1) * d < n
      BY <1>1, <1>2, <2>1
    <3> DEFINE z == (c - 1) * d
    <3> HIDE DEF z, lo, n
    <3>. QED
      BY <1>1, <2>1, <3>1, <3>2 DEF z
  <2>3. h = IF i < c THEN lo + d ELSE n
    <3>1. CASE i < c
      <4>1. i * d <= (c - 1) * d
        <5>1. i <= c - 1 /\ c - 1 \in Nat
          BY <1>2, <3>1
        <5>. QED
          BY <1>1, <2>1, <5>1, MulMono
      <4>2. i * d < n
        <5>1. (c - 1) * d < n /\ (c - 1) * d \in Int /\ i * d \in Int
          BY <1>1, <1>2, <2>1
        <5> DEFINE z == (c - 1) * d
                   y == i * d
        <5> HIDE DEF z, y, n
        <5>. QED
          BY <1>1, <4>1, <5>1 DEF z, y
      <4>. QED
        BY <1>1, <2>1, <3>1, <4>2
    <3>2. CASE i = c
      BY <1>1, <1>2, <2>1, <3>2
    <3>. QED
      BY <1>2, <3>1, <3>2
  <2>4. h \in Nat /\ lo + 1 <= h /\ h <= n
    BY <1>1, <2>1, <2>2
  <2>5. Chunks(array)[i] = SubSeq(array, lo + 1, h)
    BY <1>3
  <2> HIDE DEF lo, h, n
  <2>6. /\ SubSeq(array, lo + 1, h) \in Seq(T)
        /\ Len(SubSeq(array, lo + 1, h)) = h - lo
        /\ \A j \in 1..(h - lo) : SubSeq(array, lo + 1, h)[j] = array[lo + j]
    BY <1>1, <2>1, <2>4 DEF n
  <2>7. h - lo = IF i < c THEN d ELSE n - lo
    BY <1>1, <2>1, <2>3, <2>4
  <2>8. ~(i < c) => lo = (c - 1) * d
    BY <1>2 DEF lo
  <2>. QED
    BY <2>5, <2>6, <2>7, <2>8 DEF lo
<1>. QED
  BY <1>2, <1>3, <1>4

\* The answers are of what was asked, in its order, each read when one of the
\* requests was served.
Answered(answers, array) ==
    /\ DOMAIN answers = 1..Len(array) /\ Len(answers) = Len(array)
    /\ \A k \in 1..Len(array) :
         \E i \in 1..CeilDiv(Len(array), ChunkSize) :
           answers[k] = [of |-> array[k], at |-> reply[i]]

LEMMA AnswerFacts ==
    ASSUME NEW T, NEW array \in Seq(T)
    PROVE  Answered(Answers(array), array)
<1> DEFINE n == Len(array)
           d == ChunkSize
           c == CeilDiv(n, d)
           U == {[of |-> x, at |-> reply[i]] : x \in T, i \in 1..c}
           seqs == [i \in DOMAIN Chunks(array) |->
                      [j \in DOMAIN Chunks(array)[i] |-> [of |-> Chunks(array)[i][j], at |-> reply[i]]]]
<1>1. n \in Nat /\ d \in Nat \ {0}
  BY BatchConstants
<1>2. c \in Nat /\ n <= c * d /\ (n = 0 => c = 0) /\ (n > 0 => c > 0 /\ (c - 1) * d < n)
  BY <1>1, CeilDivFacts
<1>3. Answers(array) = FlattenSeq(seqs)
  BY DEF Answers
<1> HIDE DEF c
<1>4. /\ DOMAIN Chunks(array) = 1..c
      /\ \A i \in 1..c :
           /\ Chunks(array)[i] \in Seq(T)
           /\ Len(Chunks(array)[i]) = IF i < c THEN d ELSE n - (c - 1) * d
           /\ \A j \in 1..Len(Chunks(array)[i]) : Chunks(array)[i][j] = array[(i - 1) * d + j]
  BY ChunkFacts DEF c
<1>5. seqs = [i \in 1..c |->
                [j \in 1..Len(Chunks(array)[i]) |-> [of |-> Chunks(array)[i][j], at |-> reply[i]]]]
  <2>1. \A i \in 1..c : DOMAIN Chunks(array)[i] = 1..Len(Chunks(array)[i])
    BY <1>4
  <2>. QED
    BY <1>4, <2>1
<1> HIDE DEF seqs
<1>6. Len(seqs) = c /\ DOMAIN seqs = 1..c
  BY <1>2, <1>5
<1>7. ASSUME NEW i \in 1..c
      PROVE  /\ seqs[i] \in Seq(U)
             /\ Len(seqs[i]) = IF i < c THEN d ELSE n - (c - 1) * d
             /\ \A j \in 1..Len(seqs[i]) :
                  seqs[i][j] = [of |-> array[(i - 1) * d + j], at |-> reply[i]]
  <2> DEFINE l == Len(Chunks(array)[i])
  <2>1. l \in Nat /\ Chunks(array)[i] \in [1..l -> T]
    BY <1>4
  <2>2. seqs[i] = [j \in 1..l |-> [of |-> Chunks(array)[i][j], at |-> reply[i]]]
    BY <1>5
  <2> HIDE DEF l
  <2>3. \A j \in 1..l : [of |-> Chunks(array)[i][j], at |-> reply[i]] \in U
    BY <2>1
  <2> HIDE DEF U
  <2>4. seqs[i] \in [1..l -> U] /\ Len(seqs[i]) = l
    BY <2>1, <2>2, <2>3
  <2>5. seqs[i] \in Seq(U)
    BY <2>1, <2>4
  <2>6. \A j \in 1..l : Chunks(array)[i][j] = array[(i - 1) * d + j]
    BY <1>4 DEF l
  <2>7. \A j \in 1..l : seqs[i][j] = [of |-> array[(i - 1) * d + j], at |-> reply[i]]
    BY <2>2, <2>6
  <2>8. l = IF i < c THEN d ELSE n - (c - 1) * d
    BY <1>4 DEF l
  <2>. QED
    BY <2>4, <2>5, <2>7, <2>8
<1> HIDE DEF U
<1>8. CASE n = 0
  <2>1. c = 0 /\ Answers(array) = seqs
    BY <1>2, <1>3, <1>6, <1>8 DEF FlattenSeq
  <2>. QED
    BY <1>6, <1>8, <2>1 DEF Answered
<1>9. CASE n > 0
  <2>1. c > 0 /\ (c - 1) * d < n
    BY <1>2, <1>9
  <2>2. /\ FlattenSeq(seqs) \in Seq(U)
        /\ Len(FlattenSeq(seqs)) = (c - 1) * d + Len(seqs[c])
        /\ \A i \in 1..c : \A j \in 1..Len(seqs[i]) : FlattenSeq(seqs)[(i - 1) * d + j] = seqs[i][j]
    <3>1. Len(seqs) \in Nat /\ Len(seqs) > 0 /\ d \in Nat
      BY <1>1, <1>2, <1>6, <2>1
    <3>2. \A i \in 1..Len(seqs) : seqs[i] \in Seq(U)
      BY <1>6, <1>7
    <3>3. \A i \in 1..Len(seqs) : i < Len(seqs) => Len(seqs[i]) = d
      BY <1>6, <1>7
    <3> HIDE DEF d, n
    <3>4. Blocks(seqs, d, U)
      BY <3>1, <3>2, <3>3 DEF Blocks
    <3>5. Joined(FlattenSeq(seqs), seqs, d, U)
      BY <3>1, <3>4, FlatBlocks
    <3>. QED
      BY <1>6, <3>5, Zenon DEF Joined
  <2>3. Len(FlattenSeq(seqs)) = n
    <3>1. c \in 1..c
      BY <1>2, <2>1
    <3>2. Len(seqs[c]) = n - (c - 1) * d
      BY <1>2, <1>7, <3>1
    <3>3. (c - 1) * d \in Int
      BY <1>1, <1>2
    <3> DEFINE z == (c - 1) * d
    <3>4. Len(FlattenSeq(seqs)) = z + (n - z) /\ z \in Int
      BY <2>2, <3>2, <3>3
    <3> HIDE DEF z, n
    <3>. QED
      BY <1>1, <3>4
  <2>4. ASSUME NEW k \in 1..n
        PROVE  \E i \in 1..c : FlattenSeq(seqs)[k] = [of |-> array[k], at |-> reply[i]]
    <3> DEFINE q == (k - 1) \div d
               i == q + 1
               j == k - q * d
    <3>1. q \in Nat /\ d * q <= k - 1 /\ k - 1 < d * q + d
      BY <1>1, DivBounds
    <3> HIDE DEF q
    <3>2. j \in Nat /\ j >= 1 /\ j <= d /\ q * d + j = k /\ q * d \in Nat
      BY <1>1, <3>1
    <3>3. q < c
      <4> SUFFICES ASSUME c <= q PROVE FALSE
        BY <1>2, <3>1
      <4>1. c * d <= q * d
        BY <1>1, <1>2, <3>1, MulMono
      <4>. QED
        BY <1>1, <1>2, <3>1, <4>1
    <3>4. i \in 1..c /\ i - 1 = q
      BY <1>2, <3>1, <3>3
    <3>8. (i - 1) * d + j = k
      BY <3>2, <3>4
    <3>9. i \in Nat /\ (i = c => q * d = (c - 1) * d)
      BY <3>4
    <3> HIDE DEF i, j
    <3>5. j \in 1..Len(seqs[i])
      <4>1. CASE i < c
        BY <1>1, <1>7, <3>2, <3>4, <4>1
      <4>2. CASE i = c
        <5>1. Len(seqs[i]) = n - q * d
          BY <1>2, <1>7, <3>4, <3>9, <4>2
        <5>. QED
          BY <1>1, <3>2, <5>1, k <= n
      <4>. QED
        BY <1>2, <3>4, <3>9, <4>1, <4>2
    <3>6. FlattenSeq(seqs)[(i - 1) * d + j] = seqs[i][j]
      BY <2>2, <3>4, <3>5
    <3>7. seqs[i][j] = [of |-> array[(i - 1) * d + j], at |-> reply[i]]
      BY <1>7, <3>4, <3>5
    <3>. QED
      BY <3>4, <3>6, <3>7, <3>8
  <2>5. DOMAIN FlattenSeq(seqs) = 1..n
    BY <2>2, <2>3
  <2>. QED
    BY <1>3, <2>3, <2>4, <2>5 DEF c, Answered
<1>. QED
  BY <1>1, <1>8, <1>9

-----------------------------------------------------------------------------
(* Loading                                                                 *)

\* Of some places in a list there is a last one.
LEMMA LastExists ==
    ASSUME NEW n \in Nat, NEW S \in SUBSET (1..n), S # {}
    PROVE  \E m \in S : \A k \in S : k <= m
<1> DEFINE P(l) == \A R \in SUBSET (1..l) : R # {} => \E m \in R : \A k \in R : k <= m
           Q == {l \in Nat : P(l)}
<1>1. 0 \in Q
  <2>1. 1..0 = {}
    OBVIOUS
  <2>2. P(0)
    BY <2>1
  <2> HIDE DEF P
  <2>. QED
    BY <2>2
<1>2. ASSUME NEW l \in Nat, l \in Q PROVE l + 1 \in Q
  <2> SUFFICES ASSUME NEW R \in SUBSET (1..(l + 1)), R # {}
               PROVE  \E m \in R : \A k \in R : k <= m
    OBVIOUS
  <2>1. CASE l + 1 \in R
    BY <2>1
  <2>2. CASE l + 1 \notin R
    <3>1. R \in SUBSET (1..l)
      BY <2>2
    <3>. QED
      BY <1>2, <3>1
  <2>. QED
    BY <2>1, <2>2
<1> HIDE DEF Q
<1>3. n \in Q
  BY <1>1, <1>2, SetInduction
<1>. QED
  BY <1>3 DEF Q

ClockEntry == [key |-> Clock, type |-> "SYSVAR_CLOCK"]

Entries(T) == {PoolAccounts(p)[f] : p \in T, f \in 1..7} \cup {ClockEntry}

\* What an entry is decoded as shows in its address.
Typed(x) ==
    /\ x.key[1] \in {"tokenVault", "poolVaultLp"} => DecodeAccountTypeMapper(x.type) = "amount"
    /\ x.key[1] \in {"vaultLpMint", "lpMint"} => DecodeAccountTypeMapper(x.type) = "supply"

\* The first part of the address of a pool's f-th account.
LEMMA PoolEntries ==
    ASSUME NEW p
    PROVE  /\ PoolAccounts(p) = [f \in 1..7 |-> PoolAccounts(p)[f]]
           /\ Len(PoolAccounts(p)) = 7 /\ DOMAIN PoolAccounts(p) = 1..7
           /\ \A f \in 1..7 :
                /\ Typed(PoolAccounts(p)[f])
                /\ PoolAccounts(p)[f].key[1] \in IF f \in {1, 2, 5, 6} THEN {"tokenVault", "poolVaultLp"}
                                                                    ELSE {"vaultLpMint", "lpMint"}
<1>1. /\ PoolAccounts(p) = [f \in 1..7 |-> PoolAccounts(p)[f]]
      /\ Len(PoolAccounts(p)) = 7 /\ DOMAIN PoolAccounts(p) = 1..7
  BY DEF PoolAccounts
<1>2. ASSUME NEW f \in 1..7
      PROVE  /\ Typed(PoolAccounts(p)[f])
             /\ PoolAccounts(p)[f].key[1] \in IF f \in {1, 2, 5, 6} THEN {"tokenVault", "poolVaultLp"}
                                                                 ELSE {"vaultLpMint", "lpMint"}
  <2>1. CASE f \in {1, 2, 5, 6}
    BY <2>1 DEF PoolAccounts, Typed, DecodeAccountTypeMapper
  <2>2. CASE f \in {3, 4, 7}
    BY <2>2 DEF PoolAccounts, Typed, DecodeAccountTypeMapper
  <2>. QED
    BY <2>1, <2>2
<1>. QED
  BY <1>1, <1>2

LEMMA EntriesTyped ==
    ASSUME NEW T, NEW x \in Entries(T)
    PROVE  Typed(x)
<1>1. Typed(ClockEntry)
  BY DEF Typed, ClockEntry, Clock
<1>. QED
  BY <1>1, PoolEntries DEF Entries

\* The list of accounts has every account of every pool, and the clock.
Asked(array, pools, T) ==
    /\ array \in Seq(Entries(T))
    /\ Len(array) = 7 * Len(pools) + 1
    /\ array[Len(array)] = ClockEntry
    /\ \A i \in 1..Len(pools) : \A f \in 1..7 : \E k \in 1..Len(array) : array[k] = PoolAccounts(pools[i])[f]

\* Functions on 1..7 are sequences of that length.
LEMMA SevenEntries ==
    ASSUME NEW S, NEW q, q \in [1..7 -> S]
    PROVE  q \in Seq(S) /\ Len(q) = 7
<1>1. PICK n \in Nat : n = 7
  OBVIOUS
<1>2. q \in [1..n -> S]
  BY <1>1, Zenon
<1>3. q \in Seq(S) /\ Len(q) = n
  BY <1>2
<1>. QED
  BY <1>1, <1>3, Zenon

LEMMA AskedFacts ==
    ASSUME NEW T, NEW pools \in Seq(T), read.pools = pools
    PROVE  Asked(AccountsToFetch, pools, T)
<1> DEFINE E == Entries(T)
           n == Len(pools)
           seqs == [i \in DOMAIN pools |-> PoolAccounts(pools[i])]
           flat == FlattenSeq(seqs)
<1>1. n \in Nat /\ DOMAIN pools = 1..n /\ \A i \in 1..n : pools[i] \in T
  OBVIOUS
<1>2. AccountsToFetch = flat \o <<ClockEntry>>
  BY DEF AccountsToFetch, ClockEntry
<1>3. Len(seqs) = n /\ DOMAIN seqs = 1..n /\ \A i \in 1..n : seqs[i] = PoolAccounts(pools[i])
  BY <1>1
<1> HIDE DEF seqs
<1>4. ASSUME NEW i \in 1..n PROVE seqs[i] \in Seq(E) /\ Len(seqs[i]) = 7
  <2>1. \A f \in 1..7 : PoolAccounts(pools[i])[f] \in E
    BY <1>1 DEF Entries
  <2> HIDE DEF E
  <2>2. PoolAccounts(pools[i]) \in [1..7 -> E]
    BY <2>1, PoolEntries
  <2>3. seqs[i] \in [1..7 -> E]
    BY <1>3, <2>2
  <2>. QED
    BY <2>3, SevenEntries
<1>5. ClockEntry \in E
  BY DEF Entries
<1> HIDE DEF E
<1>6. /\ flat \in Seq(E) /\ Len(flat) = 7 * n
      /\ \A i \in 1..n : \A f \in 1..7 : flat[(i - 1) * 7 + f] = PoolAccounts(pools[i])[f]
  <2>1. CASE n = 0
    <3>1. flat = seqs /\ seqs = <<>>
      BY <1>3, <2>1 DEF FlattenSeq
    <3>. QED
      BY <1>1, <2>1, <3>1
  <2>2. CASE n > 0
    <3>1. Blocks(seqs, 7, E)
      BY <1>1, <1>3, <1>4, <2>2 DEF Blocks
    <3>2. Joined(flat, seqs, 7, E)
      BY <3>1, FlatBlocks
    <3>3. Len(seqs[n]) = 7
      BY <1>1, <1>4, <2>2
    <3>4. flat \in Seq(E) /\ Len(flat) = (n - 1) * 7 + 7
      BY <1>3, <3>2, <3>3 DEF Joined
    <3>5. ASSUME NEW i \in 1..n, NEW f \in 1..7 PROVE flat[(i - 1) * 7 + f] = PoolAccounts(pools[i])[f]
      <4>1. f \in 1..Len(seqs[i]) /\ i \in 1..Len(seqs) /\ seqs[i] = PoolAccounts(pools[i])
        BY <1>3, <1>4
      <4>2. flat[(i - 1) * 7 + f] = seqs[i][f]
        BY <3>2, <4>1 DEF Joined
      <4>. QED
        BY <4>1, <4>2
    <3>. QED
      BY <1>1, <3>4, <3>5
  <2>. QED
    BY <1>1, <2>1, <2>2
<1> HIDE DEF flat, n
<1>7. /\ AccountsToFetch \in Seq(E) /\ Len(AccountsToFetch) = 7 * n + 1
      /\ AccountsToFetch[7 * n + 1] = ClockEntry
      /\ \A k \in 1..(7 * n) : AccountsToFetch[k] = flat[k]
  <2> DEFINE last == <<ClockEntry>>
  <2>1. last \in Seq(E) /\ Len(last) = 1 /\ last[1] = ClockEntry
    BY <1>5
  <2> HIDE DEF last
  <2>2. /\ flat \o last \in Seq(E) /\ Len(flat \o last) = 7 * n + 1
        /\ \A k \in 1..(7 * n + 1) : (flat \o last)[k] = IF k <= 7 * n THEN flat[k] ELSE last[k - 7 * n]
    <3>1. /\ flat \o last \in Seq(E)
          /\ Len(flat \o last) = Len(flat) + Len(last)
          /\ \A k \in 1..Len(flat) + Len(last) :
               (flat \o last)[k] = IF k <= Len(flat) THEN flat[k] ELSE last[k - Len(flat)]
      BY <1>6, <2>1, ConcatProperties, Zenon
    <3>. QED
      BY <1>1, <1>6, <2>1, <3>1
  <2>3. AccountsToFetch = flat \o last
    BY <1>2 DEF last
  <2>4. /\ 7 * n + 1 \in 1..(7 * n + 1) /\ ~(7 * n + 1 <= 7 * n) /\ (7 * n + 1) - 7 * n = 1
        /\ \A k \in 1..(7 * n) : k \in 1..(7 * n + 1) /\ k <= 7 * n
    BY <1>1
  <2>. QED
    BY <2>1, <2>2, <2>3, <2>4
<1>8. ASSUME NEW i \in 1..n, NEW f \in 1..7
      PROVE  \E k \in 1..Len(AccountsToFetch) : AccountsToFetch[k] = PoolAccounts(pools[i])[f]
  <2> DEFINE k == (i - 1) * 7 + f
  <2>1. k \in 1..(7 * n) /\ k \in 1..(7 * n + 1)
    BY <1>1
  <2>2. AccountsToFetch[k] = PoolAccounts(pools[i])[f]
    BY <1>6, <1>7, <2>1
  <2>. QED
    BY <1>7, <2>1, <2>2
<1>. QED
  BY <1>7, <1>8 DEF Asked, E, n

\* What the map has for an address: an entry for it, decoded as its type says, with
\* the time of one of the requests.
Mapped(map, k, T, c) ==
    /\ map[k].key = k
    /\ \E x \in Entries(T) : x.key = k /\ map[k].as = DecodeAccountTypeMapper(x.type)
    /\ \E i \in 1..c : map[k].at = reply[i]

LEMMA MapFacts ==
    ASSUME NEW T, NEW pools \in Seq(T), read.pools = pools,
           NEW c, c = CeilDiv(7 * Len(pools) + 1, ChunkSize)
    PROVE  /\ Mapped(AccountsInfoMap, Clock, T, c)
           /\ \A i \in 1..Len(pools) : \A f \in 1..7 :
                Mapped(AccountsInfoMap, PoolAccounts(pools[i])[f].key, T, c)
<1> DEFINE A == AccountsToFetch
           answers == Answers(A)
           places(k) == {i \in DOMAIN answers : answers[i].of.key = k}
           LastEntry(k) == CHOOSE i \in DOMAIN answers :
                     /\ answers[i].of.key = k
                     /\ \A j \in DOMAIN answers : answers[j].of.key = k => j <= i
<1>1. Asked(A, pools, T)
  BY AskedFacts
<1> HIDE DEF A
<1>2. A \in Seq(Entries(T)) /\ Len(A) = 7 * Len(pools) + 1
  BY <1>1 DEF Asked
<1>3. Answered(answers, A)
  BY <1>2, AnswerFacts
<1>4. AccountsInfoMap = [k \in {answers[i].of.key : i \in DOMAIN answers} |->
           [key |-> k, as |-> DecodeAccountTypeMapper(answers[LastEntry(k)].of.type),
            at |-> answers[LastEntry(k)].at]]
  BY DEF AccountsInfoMap, A
<1> HIDE DEF answers
<1>5. /\ DOMAIN answers = 1..Len(A) /\ Len(A) \in Nat
      /\ \A k \in 1..Len(A) : /\ A[k] \in Entries(T)
                              /\ answers[k].of = A[k]
                              /\ \E i \in 1..c : answers[k].at = reply[i]
  <2>1. /\ DOMAIN answers = 1..Len(A)
        /\ \A k \in 1..Len(A) : \E i \in 1..c : answers[k] = [of |-> A[k], at |-> reply[i]]
    BY <1>2, <1>3 DEF Answered
  <2>2. Len(A) \in Nat /\ \A k \in 1..Len(A) : A[k] \in Entries(T)
    BY <1>2
  <2>3. ASSUME NEW k \in 1..Len(A)
        PROVE  answers[k].of = A[k] /\ \E i \in 1..c : answers[k].at = reply[i]
    <3>1. PICK i \in 1..c : answers[k] = [of |-> A[k], at |-> reply[i]]
      BY <2>1
    <3>2. answers[k].of = A[k] /\ answers[k].at = reply[i]
      BY <3>1
    <3>. QED
      BY <3>2
  <2>. QED
    BY <2>1, <2>2, <2>3
<1>6. ASSUME NEW a \in 1..Len(A) PROVE Mapped(AccountsInfoMap, A[a].key, T, c)
  <2> DEFINE k == A[a].key
             l == LastEntry(k)
  <2>1. k \in {answers[i].of.key : i \in DOMAIN answers}
    BY <1>5
  <2>2. l \in DOMAIN answers /\ answers[l].of.key = k
    <3>1. places(k) \in SUBSET (1..Len(A)) /\ places(k) # {}
      BY <1>5
    <3>2. PICK m \in places(k) : \A j \in places(k) : j <= m
      <4> DEFINE ps == places(k)
      <4> HIDE DEF ps
      <4>1. \E m \in ps : \A j \in ps : j <= m
        BY <1>5, <3>1, LastExists DEF ps
      <4>. QED
        BY <4>1 DEF ps
    <3> HIDE DEF k
    <3>3. /\ m \in DOMAIN answers /\ answers[m].of.key = k
          /\ \A j \in DOMAIN answers : answers[j].of.key = k => j <= m
      BY <3>2
    <3>. QED
      BY <3>3
  <2> HIDE DEF l
  <2>3. AccountsInfoMap[k] = [key |-> k, as |-> DecodeAccountTypeMapper(answers[l].of.type), at |-> answers[l].at]
    BY <1>4, <2>1 DEF l
  <2> HIDE DEF k
  <2>4. /\ AccountsInfoMap[k].key = k
        /\ AccountsInfoMap[k].as = DecodeAccountTypeMapper(A[l].type) /\ A[l].key = k
        /\ A[l] \in Entries(T)
        /\ \E i \in 1..c : AccountsInfoMap[k].at = reply[i]
    BY <1>5, <2>2, <2>3
  <2>5. Mapped(AccountsInfoMap, k, T, c)
    BY <2>4 DEF Mapped
  <2>. QED
    BY <2>5 DEF k
<1>7. Mapped(AccountsInfoMap, Clock, T, c)
  <2>1. Len(A) \in 1..Len(A) /\ A[Len(A)] = ClockEntry
    <3>1. Len(pools) \in Nat
      OBVIOUS
    <3>. QED
      BY <1>1, <1>2, <3>1 DEF Asked
  <2>2. ClockEntry.key = Clock
    BY DEF ClockEntry
  <2>. QED
    BY <1>6, <2>1, <2>2
<1>8. ASSUME NEW i \in 1..Len(pools), NEW f \in 1..7
      PROVE  Mapped(AccountsInfoMap, PoolAccounts(pools[i])[f].key, T, c)
  <2>1. PICK a \in 1..Len(A) : A[a] = PoolAccounts(pools[i])[f]
    BY <1>1 DEF Asked
  <2>. QED
    BY <1>6, <2>1
<1>. QED
  BY <1>7, <1>8

-----------------------------------------------------------------------------

Loading == {"pools", "lpMints", "vaults", "accounts", "depeg", "done"}

\* While pools are loaded the list is one of addresses; from the second request on,
\* the pools read are those of the list, one by one.
LoadInv ==
    /\ DOMAIN exists \subseteq Pools
    /\ stage \in Loading => list \in Seq(Pools \cup {Unknown})
    /\ stage \in Loading \ {"pools"} => read.pools = list
    /\ RightAccounts /\ OneMoment

\* Comparing the lengths is enough: as many pools as addresses are the pools at
\* these addresses, in this order.
LEMMA PoolStatesFacts ==
    ASSUME list \in Seq(Pools \cup {Unknown}), ~SomeNotFound(PoolStates)
    PROVE  PoolStates = list
<1> DEFINE T == Pools \cup {Unknown}
           n == Len(list)
           answers == Answers(list)
           there(r) == r.of \in DOMAIN exists /\ exists[r.of] <= r.at
           seqs == [i \in DOMAIN answers |-> IF there(answers[i]) THEN <<answers[i].of>> ELSE <<>>]
<1>1. Answered(answers, list)
  BY AnswerFacts
<1>2. PoolStates = FlattenSeq(seqs)
  BY DEF PoolStates
<1> HIDE DEF answers
<1>3. n \in Nat /\ DOMAIN answers = 1..n /\ list \in [1..n -> T]
      /\ \A i \in 1..n : answers[i].of = list[i] /\ list[i] \in T
  <2>1. ASSUME NEW i \in 1..n PROVE answers[i].of = list[i]
    <3>1. PICK a \in 1..CeilDiv(Len(list), ChunkSize) : answers[i] = [of |-> list[i], at |-> reply[a]]
      BY <1>1 DEF Answered
    <3>. QED
      BY <3>1
  <2>. QED
    BY <1>1, <2>1 DEF Answered
<1>4. /\ Len(seqs) = n /\ DOMAIN seqs = 1..n
      /\ \A i \in 1..n : seqs[i] = <<list[i]>> \/ seqs[i] = <<>>
  BY <1>3
<1> HIDE DEF seqs
<1>5. Len(PoolStates) = n
  BY DEF SomeNotFound
<1>6. CASE n = 0
  BY <1>2, <1>3, <1>4, <1>6 DEF FlattenSeq
<1>7. CASE n > 0
  <2>1. Options(seqs, T)
    <3>1. ASSUME NEW i \in 1..n PROVE seqs[i] \in Seq(T) /\ Len(seqs[i]) <= 1
      <4>1. list[i] \in T
        BY <1>3
      <4>2. <<list[i]>> \in Seq(T) /\ Len(<<list[i]>>) = 1
        <5> HIDE DEF T
        <5>. QED
          BY <4>1
      <4>3. <<>> \in Seq(T) /\ Len(<<>>) = 0
        OBVIOUS
      <4>. QED
        <5>1. CASE seqs[i] = <<list[i]>>
          BY <4>2, <5>1
        <5>2. CASE seqs[i] = <<>>
          BY <4>3, <5>2
        <5>. QED
          BY <1>4, <5>1, <5>2
    <3>. QED
      BY <1>3, <1>4, <1>7, <3>1 DEF Options
  <2>2. Filtered(FlattenSeq(seqs), seqs, T)
    BY <2>1, FlatFilter
  <2>3. PoolStates \in Seq(T) /\ \A i \in 1..n : Len(seqs[i]) = 1 /\ PoolStates[i] = seqs[i][1]
    BY <1>2, <1>4, <1>5, <2>2 DEF Filtered
  <2>4. ASSUME NEW i \in 1..n PROVE PoolStates[i] = list[i]
    <3>1. seqs[i] = <<list[i]>>
      BY <1>4, <2>3
    <3>. QED
      BY <2>3, <3>1
  <2>5. PoolStates \in [1..n -> T]
    BY <1>5, <2>3
  <2> HIDE DEF n
  <2>. QED
    BY <1>3, <2>4, <2>5
<1>. QED
  BY <1>3, <1>6, <1>7

LEMMA BuildStep ==
    ASSUME LoadInv, BuildAmmImpls
    PROVE  RightAccounts' /\ OneMoment'
<1> DEFINE T == Pools \cup {Unknown}
           n == Len(list)
           c == CeilDiv(7 * n + 1, ChunkSize)
           map == AccountsInfoMap
<1>1. /\ list \in Seq(T) /\ read.pools = list /\ n \in Nat /\ DOMAIN list = 1..n
      /\ list' = list
  BY DEF LoadInv, BuildAmmImpls, Loading
<1>2. result' = [i \in 1..n |->
                   [pool |-> PoolInfo(list[i]),
                    info |-> [f \in 1..7 |-> map[PoolAccounts(list[i])[f].key]],
                    clock |-> map[Clock]]]
  BY <1>1 DEF BuildAmmImpls
<1>3. /\ Mapped(map, Clock, T, c)
      /\ \A i \in 1..n : \A f \in 1..7 : Mapped(map, PoolAccounts(list[i])[f].key, T, c)
  BY <1>1, MapFacts
<1>4. ASSUME NEW i \in 1..n PROVE PoolInfo(list[i]) = list[i]
  <2> DEFINE ps == {j \in 1..n : list[j] = list[i]}
             l == CHOOSE j \in DOMAIN list : /\ list[j] = list[i]
                                             /\ \A k \in DOMAIN list : list[k] = list[i] => k <= j
  <2>1. \E m \in ps : \A k \in ps : k <= m
    <3>1. ps \in SUBSET (1..n) /\ ps # {}
      OBVIOUS
    <3> HIDE DEF ps
    <3>. QED
      BY <1>1, <3>1, LastExists
  <2>2. \E j \in DOMAIN list : list[j] = list[i] /\ \A k \in DOMAIN list : list[k] = list[i] => k <= j
    BY <1>1, <2>1
  <2>3. list[l] = list[i]
    BY <2>2
  <2>. QED
    BY <1>1, <2>3 DEF PoolInfo
<1> HIDE DEF map, c, n
<1>5. /\ Len(result') = n
      /\ \A i \in 1..n : /\ result'[i].pool = list[i] /\ result'[i].clock = map[Clock]
                         /\ \A f \in 1..7 : result'[i].info[f] = map[PoolAccounts(list[i])[f].key]
  BY <1>1, <1>2, <1>4
<1>6. DOMAIN result' = 1..n
  BY <1>2
<1>7. ASSUME NEW i \in 1..n, NEW f \in 1..7
      PROVE  /\ map[PoolAccounts(list[i])[f].key].key = PoolAccounts(list[i])[f].key
             /\ map[PoolAccounts(list[i])[f].key].as = IF f \in {1, 2, 5, 6} THEN "amount" ELSE "supply"
  <2> DEFINE k == PoolAccounts(list[i])[f].key
  <2>1. k[1] \in IF f \in {1, 2, 5, 6} THEN {"tokenVault", "poolVaultLp"} ELSE {"vaultLpMint", "lpMint"}
    BY PoolEntries
  <2> HIDE DEF k
  <2>2. Mapped(map, k, T, c)
    BY <1>3 DEF k
  <2>3. PICK x \in Entries(T) : x.key = k /\ map[k].as = DecodeAccountTypeMapper(x.type)
    BY <2>2 DEF Mapped
  <2>4. Typed(x)
    BY EntriesTyped
  <2>5. map[k].as = IF f \in {1, 2, 5, 6} THEN "amount" ELSE "supply"
    BY <2>1, <2>3, <2>4 DEF Typed
  <2>6. map[k].key = k
    BY <2>2 DEF Mapped
  <2>. QED
    BY <2>5, <2>6 DEF k
<1>8. RightAccounts'
  <2>1. ASSUME NEW i \in DOMAIN list'
        PROVE  /\ result'[i].pool = list'[i]
               /\ \A f \in 1..7 :
                    /\ result'[i].info[f].key = PoolAccounts(list'[i])[f].key
                    /\ result'[i].info[f].as = IF f \in {1, 2, 5, 6} THEN "amount" ELSE "supply"
    BY <1>1, <1>5, <1>7
  <2>2. Len(result') = Len(list')
    BY <1>1, <1>5 DEF n
  <2>. QED
    BY <2>1, <2>2 DEF RightAccounts, PoolAccounts
<1>9. OneMoment'
  <2> SUFFICES ASSUME 7 * n + 1 <= ChunkSize, NEW i \in 1..n, NEW f \in 1..7
               PROVE  result'[i].info[f].at = result'[i].clock.at
    BY <1>1, <1>6 DEF OneMoment, n
  <2>1. c = 1
    <3>1. 7 * n + 1 \in Nat /\ 7 * n + 1 > 0 /\ ChunkSize \in Nat \ {0}
      BY <1>1, BatchConstants DEF n
    <3>. QED
      BY <3>1, CeilDivFacts DEF c
  <2>2. \A k : Mapped(map, k, T, c) => map[k].at = reply[1]
    BY <2>1 DEF Mapped
  <2>3. map[PoolAccounts(list[i])[f].key].at = reply[1] /\ map[Clock].at = reply[1]
    BY <1>3, <2>2
  <2>. QED
    BY <1>5, <2>3
<1>. QED
  BY <1>8, <1>9

LEMMA LoadInit == Init => LoadInv
BY DEF Init, LoadInv, Loading, RightAccounts, OneMoment

LEMMA LoadStep ==
    ASSUME SearchInv, LoadInv, [Next]_vars
    PROVE  LoadInv'
<1>1. ASSUME stage' # "done" PROVE RightAccounts' /\ OneMoment'
  BY <1>1 DEF RightAccounts, OneMoment
<1>2. ASSUME UNCHANGED <<stage, list, read, result>>, DOMAIN exists' \subseteq Pools
      PROVE  LoadInv'
  <2>1. (RightAccounts <=> RightAccounts') /\ (OneMoment <=> OneMoment')
    BY <1>2 DEF RightAccounts, OneMoment, PoolAccounts
  <2>. QED
    BY <1>2, <2>1 DEF LoadInv
<1>3. ASSUME UNCHANGED <<exists, list, read>>, stage \in Loading \ {"pools"},
             stage' \in Loading, stage' # "done"
      PROVE  LoadInv'
  BY <1>1, <1>3 DEF LoadInv, Loading
<1>4. ASSUME NEW p \in Pools, CreatePool(p) PROVE LoadInv'
  <2>1. DOMAIN exists' \subseteq Pools
    BY <1>4 DEF CreatePool, LoadInv
  <2>. QED
    BY <1>2, <1>4, <2>1 DEF CreatePool
<1>5. ASSUME NEW m \in Mints, SearchPoolsByToken(m) PROVE LoadInv'
  BY <1>1, <1>5 DEF SearchPoolsByToken, LoadInv, Loading
<1>6. ASSUME NEW side \in Sides, ServeSearch(side) PROVE LoadInv'
  <2>1. UNCHANGED <<exists, stage, list, read, result>>
    BY <1>6 DEF ServeSearch
  <2>. QED
    BY <1>2, <2>1 DEF LoadInv
<1>7. ASSUME NEW l \in Lists \cup {Found}, CreateMultiple(l) PROVE LoadInv'
  <2>1. l \in Seq(Pools \cup {Unknown})
    <3>1. CASE l \in Lists
      BY <3>1, BatchConstants
    <3>2. CASE l = Found /\ stage = "search" /\ search.left = {}
      <4>1. Searched("a") /\ Searched("b")
        BY <3>2 DEF SearchInv, Sides
      <4>2. search.found.a \in Seq(Pools) /\ search.found.b \in Seq(Pools)
        BY <4>1 DEF Searched
      <4>3. Found \in Seq(Pools)
        BY <4>2 DEF Found
      <4>. QED
        BY <3>2, <4>3
    <3>. QED
      BY <1>7, <3>1, <3>2 DEF CreateMultiple
  <2>2. list' = l /\ stage' = "pools" /\ exists' = exists
    BY <1>7 DEF CreateMultiple
  <2>. QED
    BY <1>1, <2>1, <2>2 DEF LoadInv
<1>8. ASSUME NEW i, ServeChunk(i) PROVE LoadInv'
  BY <1>2, <1>8 DEF ServeChunk, LoadInv
<1>9. ASSUME FailChunk PROVE LoadInv'
  BY <1>1, <1>9 DEF FailChunk, LoadInv, Loading
<1>10. ASSUME GetAllPoolState PROVE LoadInv'
  <2>1. CASE SomeNotFound(PoolStates)
    BY <1>1, <1>10, <2>1 DEF GetAllPoolState, LoadInv, Loading
  <2>2. CASE ~SomeNotFound(PoolStates)
    <3>1. list \in Seq(Pools \cup {Unknown})
      BY <1>10 DEF GetAllPoolState, LoadInv, Loading
    <3>2. PoolStates = list
      BY <2>2, <3>1, PoolStatesFacts
    <3>3. stage' = "lpMints" /\ read'.pools = list /\ UNCHANGED <<exists, list>>
      BY <1>10, <2>2, <3>2 DEF GetAllPoolState
    <3>. QED
      BY <1>1, <3>1, <3>3 DEF LoadInv
  <2>. QED
    BY <2>1, <2>2
<1>11. ASSUME GetLpSupplies \/ FetchAccounts \/ GetDepegAccounts PROVE LoadInv'
  BY <1>3, <1>11 DEF GetLpSupplies, FetchAccounts, GetDepegAccounts, Loading
<1>12. ASSUME BuildAmmImpls PROVE LoadInv'
  <2>1. RightAccounts' /\ OneMoment'
    BY <1>12, BuildStep
  <2>. QED
    BY <1>12, <2>1 DEF BuildAmmImpls, LoadInv, Loading
<1>13. ASSUME Tick PROVE LoadInv'
  BY <1>2, <1>13 DEF Tick, LoadInv
<1>14. CASE UNCHANGED vars
  BY <1>2, <1>14 DEF vars, LoadInv
<1>. QED
  BY <1>4, <1>5, <1>6, <1>7, <1>8, <1>9, <1>10, <1>11, <1>12, <1>13, <1>14 DEF Next

LEMMA LoadInvariant == Spec => []LoadInv
<1>1. SearchInv /\ LoadInv /\ [Next]_vars => LoadInv'
  BY LoadStep
<1>. QED
  BY <1>1, LoadInit, SearchInvariant, PTL DEF Spec

\* For any list, however long, with pools twice, pools that share vaults and
\* addresses that are no pools, and chunks of any size served in any order: the
\* objects of createMultiple are those of the list, each with its own accounts.
THEOREM RightAccountsAlways == Spec => []RightAccounts
<1>1. LoadInv => RightAccounts
  BY DEF LoadInv
<1>. QED
  BY <1>1, LoadInvariant, PTL

\* When all accounts and the clock fit into one request, whatever its size, the
\* objects of createMultiple have numbers of one moment.
THEOREM OneMomentAlways == Spec => []OneMoment
<1>1. LoadInv => OneMoment
  BY DEF LoadInv
<1>. QED
  BY <1>1, LoadInvariant, PTL
=============================================================================
